---------------------------- MODULE Spec2Model ----------------------------
(***************************************************************************)
(* WebArtisan roast monitor: the roast-session state machine of            *)
(* src/App.tsx (status, samples, events, startTime, the sampling tick, the *)
(* undo-drop grace timer, the simulator) together with the data-delivery   *)
(* contract of src/services/bluetoothService.ts and the connection life   *)
(* cycle of the Bluetooth, serial and WebSocket services.                  *)
(*                                                                         *)
(* Time is counted in whole seconds.  The code reads the clock only as the *)
(* difference Date.now() - startTime and through its two timers, so the    *)
(* state holds that difference (elapsed) and the time left on each timer   *)
(* in place of absolute instants.  Temperatures are integers; a rate of    *)
(* rise is stored in tenths of a degree per minute, which is what          *)
(* toFixed(1) leaves.  The labels of the source are Chinese strings; they  *)
(* are written here in ASCII:                                              *)
(*   "start" = 开始, "drop" = 下豆, "charge" = 入豆, "dryEnd" = 脱水结束,         *)
(*   "fcStart" = 一爆开始, "fcEnd" = 一爆结束, "scStart" = 二爆开始,              *)
(*   "scEnd" = 二爆结束, "tp" = 回温点.                                          *)
(*                                                                         *)
(* A state update and the effect it triggers are one step.  The user can   *)
(* click a button only while the JSX renders it enabled.  A connect that   *)
(* fails does so before the link exists or because the link was lost.      *)
(*                                                                         *)
(* Specifications:                                                         *)
(*   Spec         the session, every click rendered before the next one;   *)
(*   FairSpec     the steps of Spec that touch the status or a timer, with *)
(*                the timers run by the event loop;                        *)
(*   BatchSpec    Spec with two handler calls made on one render;          *)
(*   FramingSpec  the line framing of the transport on its own;            *)
(*   ParserSpec   parseGreedy of the services on the lines of a device;    *)
(*   RorSpec      the sampling tick and recalculateRoR on series of        *)
(*                samples;                                                 *)
(*   CsvSpec      handleConfirmExport and the CSV import of its file;      *)
(*   ImportSpec   the CSV import of files written by other programs;       *)
(*   ExportSpec   the export modal over the buttons of the session;        *)
(*   TransportSpec      connect, loss, disconnect, polling and incoming    *)
(*                data of one service;                                     *)
(*   FairTransportSpec  TransportSpec with the browser delivering its      *)
(*                close event and running the polling interval.            *)
(***************************************************************************)
EXTENDS Integers, Sequences, FiniteSets, TLC

(* ------------------------------ bounds --------------------------------- *)

\* the sampling tick is not taken once samples has this many points
MaxSamples == 2

(* ------------------------- program constants --------------------------- *)

\* setTimeout(..., 5000) of handleStopRoast, in seconds
GraceSeconds == 5

\* setInterval(..., 1000) of the sampling effect, in seconds
TickSeconds == 1

\* LOOKBACK_WINDOW of the sampling tick and of recalculateRoR
LOOKBACK_WINDOW == 60

\* useRef(20.0) of btRef and etRef
InitialTemp == 20

\* simBt and simEt of toggleSimulation
SimStartBT == 150

SimStartET == 200

\* the value of a number | null cell that holds null
NoTime == -1

(* ----------------------------- RoastStatus ----------------------------- *)

IDLE == "IDLE"

\* declared by the enum; no handler assigns it
CONNECTED == "CONNECTED"

PREHEATING == "PREHEATING"

ROASTING == "ROASTING"

FINISHED == "FINISHED"

RoastStatus == {IDLE, CONNECTED, PREHEATING, ROASTING, FINISHED}

VARIABLES
    status,         \* useState<RoastStatus>
    data,           \* useState<DataPoint[]> and dataRef, always assigned together
    events,         \* useState<RoastEvent[]>
    elapsed,        \* Date.now() - startTime in seconds; NoTime while startTime is null
    btRef,          \* useRef: live bean reading (currentBT mirrors it)
    etRef,          \* useRef: live environment reading (currentET mirrors it)
    connStep,       \* position of a handleBluetoothConnect call in flight
    linkUp,         \* device.gatt.connected, with the disconnect listener registered
    isSimulating,   \* useState<boolean>
    simRefLive,     \* simulationIntervalRef.current is an interval still running
    simOrphaned,    \* some running simulator interval has no handle left to clear it
    showUndoDrop,   \* useState<boolean>
    undoTimer,      \* seconds until the timeout of undoTimerRef fires, or NoTime
    nextTick,       \* seconds until the sampling interval fires, or NoTime
    errorMsg,       \* useState<string | null>
    sinceDisconnect,\* history: a disconnect happened and no startRoast since
    stopSnap,       \* history: the session as it was before the last stopRoast
    delivered,      \* history: the last (bt, et) the transport or simulator gave
    buffer,         \* the service's buffer: received characters not yet framed
    wire,           \* the characters the device sends, how many have arrived, in
                    \* how many chunks
    parsedLines,    \* history: the lines handed to parseGreedy, in order
    port,           \* which service reads the device: "bluetooth" or "serial"
    pending,        \* the framed lines parseGreedy has still to be called with
    lastET,         \* the serial service's lastET field
    emitted,        \* history: for each line parsed, the (bt, et) pairs it gave
                    \* to onDataCallback
    csvFile,        \* the lines of the CSV file at hand: the one last downloaded or
                    \* one written by another tool; <<>> if none
    isExportModalOpen, \* useState<boolean>
    adapter         \* the fields of the transport service in use and the state
                    \* of its transport

vars == <<status, data, events, elapsed, btRef, etRef, connStep, linkUp,
          isSimulating, simRefLive, simOrphaned, showUndoDrop, undoTimer,
          nextTick, errorMsg, sinceDisconnect, stopSnap, delivered,
          buffer, wire, parsedLines, port, pending, lastET, emitted,
          csvFile, isExportModalOpen, adapter>>

\* the line framing of the transport
framing == <<buffer, wire, parsedLines>>

\* the line parser of the transport
parsing == <<port, pending, lastET, emitted>>

\* what the session's handlers leave alone: the transport and the exported file
io == <<framing, parsing, csvFile, isExportModalOpen, adapter>>

(* ------------------------------ helpers -------------------------------- *)

Abs(x) == IF x < 0 THEN -x ELSE x

Max(a, b) == IF a >= b THEN a ELSE b

\* data.filter(d => d.time > lo)
RECURSIVE SelectAfter(_, _)
SelectAfter(s, lo) ==
    IF s = <<>> THEN <<>>
    ELSE IF Head(s).time > lo
         THEN <<Head(s)>> \o SelectAfter(Tail(s), lo)
         ELSE SelectAfter(Tail(s), lo)

\* data.filter(d => d.time > lo && d.time <= hi)
RECURSIVE SelectPoints(_, _, _)
SelectPoints(s, lo, hi) ==
    IF s = <<>> THEN <<>>
    ELSE IF Head(s).time > lo /\ Head(s).time <= hi
         THEN <<Head(s)>> \o SelectPoints(Tail(s), lo, hi)
         ELSE SelectPoints(Tail(s), lo, hi)

\* the running sums of calculateSlope over points [time, value]
RECURSIVE Sums(_)
Sums(pts) ==
    IF pts = <<>> THEN [x |-> 0, y |-> 0, xy |-> 0, xx |-> 0]
    ELSE LET r == Sums(Tail(pts))
             p == Head(pts)
         IN [x  |-> r.x + p.time,
             y  |-> r.y + p.value,
             xy |-> r.xy + p.time * p.value,
             xx |-> r.xx + p.time * p.time]

\* A faulty slope that leaves the product of the sums out of the numerator.
calculateSlopeUncentred(pts) ==
    LET n == Len(pts)
        s == Sums(pts)
        denominator == n * s.xx - s.x * s.x
    IN IF n < 2 THEN [num |-> 0, den |-> 1]
       ELSE IF denominator = 0 THEN [num |-> 0, den |-> 1]
       ELSE [num |-> n * s.xy, den |-> denominator]

\* The least-squares slope as the exact fraction num / den with den > 0.
calculateSlope(pts) ==
    LET n == Len(pts)
        s == Sums(pts)
        denominator == n * s.xx - s.x * s.x
    IN IF n < 2 THEN [num |-> 0, den |-> 1]
       ELSE IF denominator = 0 THEN [num |-> 0, den |-> 1]
       ELSE [num |-> n * s.xy - s.x * s.y, den |-> denominator]

\* A faulty conversion that leaves the slope in degrees per second.
PerSecond(r) == r

\* slope * 60
PerMinute(r) == [num |-> 60 * r.num, den |-> r.den]

Zero == [num |-> 0, den |-> 1]

\* A faulty clamp that has no lower limit.
ClampAboveOnly(r) ==
    IF r.num > 100 * r.den THEN [num |-> 100, den |-> 1] ELSE r

\* if (ror > 100) ror = 100; if (ror < -50) ror = -50;
Clamp(r) ==
    IF r.num > 100 * r.den THEN [num |-> 100, den |-> 1]
    ELSE IF r.num < (-50) * r.den THEN [num |-> -50, den |-> 1]
    ELSE r

\* if (Math.abs(ror) < 0.1) ror = 0;
DeadBand(r) == IF 10 * Abs(r.num) < r.den THEN Zero ELSE r

\* A faulty rounding that cuts the digits after the first decimal off.
ToFixed1Truncating(r) ==
    LET q == (10 * Abs(r.num)) \div r.den
    IN IF r.num < 0 THEN -q ELSE q

\* parseFloat(x.toFixed(1)), in tenths: the nearest tenth, a tie away from zero
ToFixed1(r) ==
    LET a == 10 * Abs(r.num)
        q == (2 * a + r.den) \div (2 * r.den)
    IN IF r.num < 0 THEN -q ELSE q

BTPoints(s) == [i \in 1..Len(s) |-> [time |-> s[i].time, value |-> s[i].bt]]

ETPoints(s) == [i \in 1..Len(s) |-> [time |-> s[i].time, value |-> s[i].et]]

\* A faulty regression of the live path that is content with 3 points.
LiveRoRFromThreePoints(pts) ==
    LET raw == IF Len(pts) >= 3 /\ pts[Len(pts)].time - pts[1].time > 5
               THEN PerMinute(calculateSlope(pts))
               ELSE Zero
    IN ToFixed1(Clamp(DeadBand(raw)))

\* the regression of the sampling tick: at least 5 points spanning more than 5 s
LiveRoR(pts) ==
    LET raw == IF Len(pts) >= 5 /\ pts[Len(pts)].time - pts[1].time > 5
               THEN PerMinute(calculateSlope(pts))
               ELSE Zero
    IN ToFixed1(Clamp(DeadBand(raw)))

\* The DataPoint the sampling tick builds at elapsed time t from the live reading.
NewDataPoint(history, t, bt, et) ==
    LET inWindow == SelectAfter(history, t - LOOKBACK_WINDOW)
        regressionPointsBT == Append(BTPoints(inWindow), [time |-> t, value |-> bt])
        regressionPointsET == Append(ETPoints(inWindow), [time |-> t, value |-> et])
    IN [time |-> t, bt |-> bt, et |-> et,
        ror |-> LiveRoR(regressionPointsBT),
        et_ror |-> LiveRoR(regressionPointsET)]

\* the regression of recalculateRoR: at least 3 points spanning more than 5 s
BatchRoR(pts) ==
    LET raw == IF Len(pts) >= 3 /\ pts[Len(pts)].time - pts[1].time > 5
               THEN PerMinute(calculateSlope(pts))
               ELSE Zero
    IN ToFixed1(Clamp(raw))

recalculateRoR(rows) ==
    [index \in 1..Len(rows) |->
        LET point == rows[index]
            slice == SubSeq(rows, Max(1, index - 120), index)
            hist == SelectPoints(slice, point.time - LOOKBACK_WINDOW, point.time)
        IN [time |-> point.time, bt |-> point.bt, et |-> point.et,
            ror |-> BatchRoR(BTPoints(hist)),
            et_ror |-> BatchRoR(ETPoints(hist))]]


(* --------------------------- inputs of the model ----------------------- *)

\* (bt, et) pairs a device line can carry
Readings == {<<151, 202>>}

\* (bt, et) pairs a simulator step can produce
SimReadings == {<<151, 202>>}

\* The rows and events the parser takes from a chosen file, in the order of the
\* file: a well-formed roast, and a file whose rows are not in the order of time
\* and carry DROP twice.  A file that fails (unsupported extension, missing
\* header, empty result, bad JSON) has ok FALSE.
ParsedFiles ==
    { [ok |-> TRUE,
       rows |-> <<[time |-> 0, bt |-> 150, et |-> 200],
                  [time |-> 3, bt |-> 151, et |-> 202]>>,
       events |-> <<[time |-> 0, label |-> "charge", temp |-> 150],
                    [time |-> 3, label |-> "drop", temp |-> 151]>>],
      [ok |-> TRUE,
       rows |-> <<[time |-> 3, bt |-> 151, et |-> 202],
                  [time |-> 0, bt |-> 150, et |-> 200]>>,
       events |-> <<[time |-> 3, label |-> "drop", temp |-> 151],
                    [time |-> 0, label |-> "drop", temp |-> 150]>>],
      [ok |-> FALSE, rows |-> <<>>, events |-> <<>>] }

\* each file with the samples handleImportFile makes of its rows
ImportFiles ==
    { [ok |-> f.ok, processedData |-> recalculateRoR(f.rows), events |-> f.events] :
        f \in ParsedFiles }

\* no stopRoast to compare an undo with
NoSnap == <<>>

\* eventButtons: the label of each button and the label that enables it
eventButtons ==
    { [label |-> "charge",  needs |-> "none"],
      [label |-> "dryEnd",  needs |-> "charge"],
      [label |-> "fcStart", needs |-> "charge"],
      [label |-> "fcEnd",   needs |-> "fcStart"],
      [label |-> "scStart", needs |-> "charge"],
      [label |-> "scEnd",   needs |-> "scStart"] }

\* the event buttons the model presses
PressedLabels == {"charge"}

hasEvent(label) == \E i \in 1..Len(events) : events[i].label = label

isConnecting == connStep # "none"

\* the characteristicvaluechanged listener is attached to a live characteristic:
\* connect() has resolved and the link has not dropped since
notifying == linkUp /\ connStep = "none"

(* ------------------------------- Init ---------------------------------- *)

\* private lastET = 20.0, in ten-thousandths of a degree
InitialLastET == 200000

\* a service with no line to parse and no reading given out yet
ParsingIdle ==
    /\ port = "bluetooth"
    /\ pending = <<>>
    /\ lastET = InitialLastET
    /\ emitted = <<>>

\* no file exported yet
NoExport == csvFile = <<>>

\* the export dialog is closed
ModalClosed == isExportModalOpen = FALSE

\* no WebSocket message has arrived
NoMessage == [parse |-> "none", fields |-> <<>>]

\* The fields of a transport service of the given kind after construction, and
\* its transport.  up: the transport is connected; polling: the intervals of
\* startPolling still running; listening: the service has a handler on the
\* loss of the transport; closing: the end of the transport has still to be
\* handled; lost: the transport was lost, and neither disconnect() nor
\* onDisconnectCallback was called since; reads: the READ commands
\* written; connections: the calls of connect(); message: the last WebSocket
\* message.
FreshAdapter(kind) ==
    [kind |-> kind, up |-> FALSE, polling |-> 0, listening |-> FALSE,
     closing |-> FALSE, lost |-> FALSE, reads |-> 0, connections |-> 0,
     message |-> NoMessage]

\* the Bluetooth service the App constructs
AdapterFresh == adapter = FreshAdapter("bluetooth")

\* the session after the App component is constructed
SessionInit ==
    /\ status = IDLE
    /\ data = <<>>
    /\ events = <<>>
    /\ elapsed = NoTime
    /\ btRef = InitialTemp
    /\ etRef = InitialTemp
    /\ connStep = "none"
    /\ linkUp = FALSE
    /\ isSimulating = FALSE
    /\ simRefLive = FALSE
    /\ simOrphaned = FALSE
    /\ showUndoDrop = FALSE
    /\ undoTimer = NoTime
    /\ nextTick = NoTime
    /\ errorMsg = "none"
    /\ sinceDisconnect = FALSE
    /\ stopSnap = NoSnap
    /\ delivered = <<InitialTemp, InitialTemp>>

\* The session with nothing on the wire: the device's characters are left out of
\* the session model, where OnReading stands for a parsed line.
Init ==
    /\ SessionInit
    /\ buffer = <<>>
    /\ wire = [stream |-> <<>>, pos |-> 0, chunks |-> 0]
    /\ parsedLines = <<>>
    /\ ParsingIdle
    /\ NoExport
    /\ ModalClosed
    /\ AdapterFresh

\* A faulty sampling effect that sets the interval up but has no cleanup, so an
\* interval outlives the roasting state it was set in.
SamplingEffectWithoutCleanup ==
    nextTick' = IF status' = status /\ (elapsed' = NoTime) = (elapsed = NoTime)
                THEN nextTick
                ELSE IF status' = ROASTING /\ elapsed' # NoTime
                     THEN TickSeconds
                     ELSE nextTick

(* The sampling effect, useEffect(..., [status, startTime]): when either       *)
(* dependency changes the old interval is cleared and, if the session is       *)
(* roasting with a start time, a new one is set to fire one period later.      *)
(* startTime changes when it is set (handleStartRoast, which also changes the  *)
(* status) or becomes null.                                                    *)
SamplingEffect ==
    nextTick' = IF status' = status /\ (elapsed' = NoTime) = (elapsed = NoTime)
                THEN nextTick
                ELSE IF status' = ROASTING /\ elapsed' # NoTime
                     THEN TickSeconds
                     ELSE NoTime

(* --------------------------- connection -------------------------------- *)

\* The connect button (shown while IDLE, disabled while connecting) is clicked:
\* handleBluetoothConnect up to its await.
handleBluetoothConnect ==
    /\ status = IDLE
    /\ ~isConnecting
    /\ connStep' = "request"
    /\ errorMsg' = "none"
    /\ stopSnap' = NoSnap
    /\ UNCHANGED io
    /\ UNCHANGED delivered
    /\ UNCHANGED <<status, data, events, elapsed, btRef, etRef, linkUp,
                   isSimulating, simRefLive, simOrphaned, showUndoDrop,
                   undoTimer, nextTick, sinceDisconnect>>

\* connect(): the device is chosen, the disconnect listener is registered and
\* device.gatt.connect() resolves.
GattConnected ==
    /\ connStep = "request"
    /\ connStep' = "discover"
    /\ linkUp' = TRUE
    /\ stopSnap' = NoSnap
    /\ UNCHANGED io
    /\ UNCHANGED delivered
    /\ UNCHANGED <<status, data, events, elapsed, btRef, etRef, isSimulating,
                   simRefLive, simOrphaned, showUndoDrop, undoTimer, nextTick,
                   errorMsg, sinceDisconnect>>

\* connect() resolves: notifications are on; handleBluetoothConnect continues
\* after its await and sets the status, whatever the status is by then.
ConnectResolved ==
    /\ connStep = "discover"
    /\ connStep' = "none"
    /\ status' = PREHEATING
    /\ stopSnap' = NoSnap
    /\ UNCHANGED io
    /\ UNCHANGED delivered
    /\ UNCHANGED <<data, events, elapsed, btRef, etRef, linkUp, isSimulating,
                   simRefLive, simOrphaned, showUndoDrop, undoTimer, errorMsg,
                   sinceDisconnect>>
    /\ SamplingEffect

\* A faulty handler that sets the status after the try block, also on failure.
ConnectRejectedToPreheating ==
    /\ connStep \in {"request", "lost"}
    /\ connStep' = "none"
    /\ errorMsg' = "connectFailed"
    /\ status' = PREHEATING
    /\ stopSnap' = NoSnap
    /\ UNCHANGED io
    /\ UNCHANGED delivered
    /\ UNCHANGED <<data, events, elapsed, btRef, etRef, linkUp, isSimulating,
                   simRefLive, simOrphaned, showUndoDrop, undoTimer,
                   sinceDisconnect>>
    /\ SamplingEffect

\* connect() rejects before a link exists (no Web Bluetooth, chooser cancelled,
\* gatt.connect() failing) or because the link was lost during discovery: the
\* catch and finally of handleBluetoothConnect.
ConnectRejected ==
    /\ connStep \in {"request", "lost"}
    /\ connStep' = "none"
    /\ errorMsg' = "connectFailed"
    /\ stopSnap' = NoSnap
    /\ UNCHANGED io
    /\ UNCHANGED delivered
    /\ UNCHANGED <<status, data, events, elapsed, btRef, etRef, linkUp,
                   isSimulating, simRefLive, simOrphaned, showUndoDrop,
                   undoTimer, nextTick, sinceDisconnect>>

\* A device line is parsed and the onData callback stores the reading.
OnReading ==
    /\ notifying
    /\ \E r \in Readings : btRef' = r[1] /\ etRef' = r[2] /\ delivered' = r
    /\ UNCHANGED io
    /\ UNCHANGED <<status, data, events, elapsed, connStep, linkUp,
                   isSimulating, simRefLive, simOrphaned, showUndoDrop, undoTimer,
                   nextTick, errorMsg, sinceDisconnect, stopSnap>>

\* A faulty disconnect callback that also discards the roast in memory.
OnDisconnectDiscarding ==
    /\ linkUp
    /\ linkUp' = FALSE
    /\ connStep' = IF connStep = "discover" THEN "lost" ELSE connStep
    /\ status' = IDLE
    /\ isSimulating' = FALSE
    /\ errorMsg' = "disconnected"
    /\ sinceDisconnect' = TRUE
    /\ stopSnap' = NoSnap
    /\ data' = <<>>
    /\ events' = <<>>
    /\ elapsed' = NoTime
    /\ UNCHANGED io
    /\ UNCHANGED delivered
    /\ UNCHANGED <<btRef, etRef, simRefLive, simOrphaned, showUndoDrop, undoTimer>>
    /\ SamplingEffect

\* gattserverdisconnected: onDisconnected calls the onDisconnect callback of
\* handleBluetoothConnect, which does not clear the simulator interval.
OnDisconnect ==
    /\ linkUp
    /\ linkUp' = FALSE
    /\ connStep' = IF connStep = "discover" THEN "lost" ELSE connStep
    /\ status' = IDLE
    /\ isSimulating' = FALSE
    /\ errorMsg' = "disconnected"
    /\ sinceDisconnect' = TRUE
    /\ stopSnap' = NoSnap
    /\ UNCHANGED io
    /\ UNCHANGED delivered
    /\ UNCHANGED <<data, events, elapsed, btRef, etRef, simRefLive, simOrphaned,
                   showUndoDrop, undoTimer>>
    /\ SamplingEffect

(* -------------------------------- time --------------------------------- *)

(* Time passes only up to the next instant at which a pending timer is due,   *)
(* and the callback of that timer runs at that instant: the timer actions     *)
(* below advance the clock by the time their timer had left.  The handlers    *)
(* run at the instants in between and see the clock of the last timer.  While *)
(* no timer is pending nothing reads the clock before the next startRoast,    *)
(* and the passing of time is left out.                                       *)

\* the time left on a timer after d more seconds
Later(t, d) == IF t = NoTime THEN NoTime ELSE t - d

\* timer t is pending and no other pending timer is due before it
DueFirst(t, other) == t # NoTime /\ (other = NoTime \/ t <= other)

\* Date.now() - startTime after d more seconds
Aged(d) == IF elapsed = NoTime THEN NoTime ELSE elapsed + d

(* ----------------------------- the session ----------------------------- *)

\* A faulty start that adds the start event to the events it finds.
StartRoastKeepingEvents ==
    /\ status \in {CONNECTED, PREHEATING}
    /\ elapsed' = 0
    /\ data' = <<>>
    /\ status' = ROASTING
    /\ events' = Append(events, [time |-> 0, label |-> "start", temp |-> btRef])
    /\ sinceDisconnect' = FALSE
    /\ stopSnap' = NoSnap
    /\ UNCHANGED io
    /\ UNCHANGED delivered
    /\ UNCHANGED <<btRef, etRef, connStep, linkUp, isSimulating, simRefLive,
                   simOrphaned, showUndoDrop, undoTimer, errorMsg>>
    /\ SamplingEffect

\* The start button (shown while CONNECTED or PREHEATING) is clicked.
handleStartRoast ==
    /\ status \in {CONNECTED, PREHEATING}
    /\ elapsed' = 0
    /\ data' = <<>>
    /\ status' = ROASTING
    /\ events' = <<[time |-> 0, label |-> "start", temp |-> btRef]>>
    /\ sinceDisconnect' = FALSE
    /\ stopSnap' = NoSnap
    /\ UNCHANGED io
    /\ UNCHANGED delivered
    /\ UNCHANGED <<btRef, etRef, connStep, linkUp, isSimulating, simRefLive,
                   simOrphaned, showUndoDrop, undoTimer, errorMsg>>
    /\ SamplingEffect

\* handleEvent(label): the events it leaves, decided on the rendered status and
\* startTime.
handleEvent(label) ==
    IF status # ROASTING \/ elapsed = NoTime THEN events
    ELSE Append(events, [time |-> Max(0, elapsed),
                         label |-> label, temp |-> btRef])

\* The drop button (shown while ROASTING) is clicked.
handleStopRoast ==
    /\ status = ROASTING
    /\ status' = FINISHED
    /\ events' = handleEvent("drop")
    /\ showUndoDrop' = TRUE
    /\ undoTimer' = GraceSeconds
    /\ stopSnap' = <<[events |-> events, data |-> data,
                      started |-> elapsed # NoTime]>>
    /\ UNCHANGED io
    /\ UNCHANGED delivered
    /\ UNCHANGED <<data, elapsed, btRef, etRef, connStep, linkUp, isSimulating,
                   simRefLive, simOrphaned, errorMsg, sinceDisconnect>>
    /\ SamplingEffect

\* The undo button of the toast (rendered while showUndoDrop) is clicked.
handleUndoDrop ==
    /\ showUndoDrop
    /\ undoTimer' = NoTime
    /\ showUndoDrop' = FALSE
    /\ status' = ROASTING
    /\ events' = IF Len(events) > 0 /\ events[Len(events)].label = "drop"
                 THEN SubSeq(events, 1, Len(events) - 1)
                 ELSE events
    /\ stopSnap' = NoSnap
    /\ UNCHANGED io
    /\ UNCHANGED delivered
    /\ UNCHANGED <<data, elapsed, btRef, etRef, connStep, linkUp, isSimulating,
                   simRefLive, simOrphaned, errorMsg, sinceDisconnect>>
    /\ SamplingEffect

\* The X of the toast: setShowUndoDrop(false); the timeout is left pending.
DismissUndoToast ==
    /\ showUndoDrop
    /\ showUndoDrop' = FALSE
    /\ stopSnap' = NoSnap
    /\ UNCHANGED io
    /\ UNCHANGED delivered
    /\ UNCHANGED <<status, data, events, elapsed, btRef, etRef, connStep,
                   linkUp, isSimulating, simRefLive, simOrphaned, undoTimer,
                   nextTick, errorMsg, sinceDisconnect>>

\* A faulty timeout whose callback hides the toast and stays pending.
UndoTimerStaysPending ==
    /\ DueFirst(undoTimer, nextTick)
    /\ showUndoDrop
    /\ showUndoDrop' = FALSE
    /\ stopSnap' = NoSnap
    /\ UNCHANGED io
    /\ UNCHANGED delivered
    /\ UNCHANGED <<status, data, events, elapsed, btRef, etRef, connStep,
                   linkUp, isSimulating, simRefLive, simOrphaned, undoTimer,
                   nextTick, errorMsg, sinceDisconnect>>

\* The timeout armed by handleStopRoast fires.
UndoTimerFires ==
    /\ DueFirst(undoTimer, nextTick)
    /\ elapsed' = Aged(undoTimer)
    /\ nextTick' = Later(nextTick, undoTimer)
    /\ undoTimer' = NoTime
    /\ showUndoDrop' = FALSE
    /\ stopSnap' = NoSnap
    /\ UNCHANGED io
    /\ UNCHANGED delivered
    /\ UNCHANGED <<status, data, events, btRef, etRef, connStep, linkUp,
                   isSimulating, simRefLive, simOrphaned, errorMsg,
                   sinceDisconnect>>

\* The reset button (shown while FINISHED) is clicked.
handleReset ==
    /\ status = FINISHED
    /\ showUndoDrop' = FALSE
    /\ undoTimer' = NoTime
    /\ status' = IF status # IDLE THEN PREHEATING ELSE status
    /\ data' = <<>>
    /\ events' = <<>>
    /\ elapsed' = NoTime
    /\ stopSnap' = NoSnap
    /\ UNCHANGED io
    /\ UNCHANGED delivered
    /\ UNCHANGED <<btRef, etRef, connStep, linkUp, isSimulating, simRefLive,
                   simOrphaned, errorMsg, sinceDisconnect>>
    /\ SamplingEffect

\* A faulty toggle that appends whether or not the label is present.
toggledAlwaysAppending(evs, label) ==
    Append(evs, [time |-> Max(0, elapsed), label |-> label, temp |-> btRef])

\* The update handleToggleEvent(label) makes to events evs it read and rendered:
\* it removes every entry with the label if there is one and appends one if not.
toggled(evs, label) ==
    IF \E i \in 1..Len(evs) : evs[i].label = label
    THEN SelectSeq(evs, LAMBDA e : e.label # label)
    ELSE Append(evs, [time |-> Max(0, elapsed),
                      label |-> label, temp |-> btRef])

\* A faulty toggle that does not look at the status or the start time.
toggleEventUnguarded(label) == toggled(events, label)

\* handleToggleEvent(label): the events it leaves, decided on the rendered
\* status, startTime and events.
toggleEvent(label) ==
    IF status # ROASTING \/ elapsed = NoTime THEN events
    ELSE toggled(events, label)

\* An event button is clicked; it is enabled while ROASTING once the label it
\* needs is present.
handleToggleEvent ==
    /\ status = ROASTING
    /\ \E b \in eventButtons :
          /\ b.label \in PressedLabels
          /\ b.needs = "none" \/ hasEvent(b.needs)
          /\ events' = toggleEvent(b.label)
    /\ UNCHANGED io
    /\ UNCHANGED delivered
    /\ UNCHANGED <<status, data, elapsed, btRef, etRef, connStep, linkUp,
                   isSimulating, simRefLive, simOrphaned, showUndoDrop,
                   undoTimer, nextTick, errorMsg, sinceDisconnect, stopSnap>>

\* The interval of the sampling effect fires.
SamplingTick ==
    /\ DueFirst(nextTick, undoTimer)
    /\ Len(data) < MaxSamples
    /\ elapsed' = Aged(nextTick)
    /\ undoTimer' = Later(undoTimer, nextTick)
    /\ data' = Append(data, NewDataPoint(data, elapsed', btRef, etRef))
    /\ nextTick' = TickSeconds
    /\ UNCHANGED io
    /\ UNCHANGED delivered
    /\ UNCHANGED <<status, events, btRef, etRef, connStep, linkUp,
                   isSimulating, simRefLive, simOrphaned, showUndoDrop,
                   errorMsg, sinceDisconnect, stopSnap>>

(* ----------------------------- simulator ------------------------------- *)

\* The simulation button (shown while IDLE) is clicked: toggleSimulation.  When
\* it starts an interval while simulationIntervalRef still holds a running one,
\* that one can no longer be cleared.
toggleSimulation ==
    /\ status = IDLE
    /\ IF isSimulating
       THEN /\ isSimulating' = FALSE
            /\ simRefLive' = FALSE
            /\ status' = IDLE
            /\ UNCHANGED <<btRef, etRef, simOrphaned, delivered>>
       ELSE /\ isSimulating' = TRUE
            /\ status' = PREHEATING
            /\ btRef' = SimStartBT
            /\ etRef' = SimStartET
            /\ delivered' = <<SimStartBT, SimStartET>>
            /\ simOrphaned' = (simOrphaned \/ simRefLive)
            /\ simRefLive' = TRUE
    /\ stopSnap' = NoSnap
    /\ UNCHANGED io
    /\ UNCHANGED <<data, events, elapsed, connStep, linkUp, showUndoDrop,
                   undoTimer, errorMsg, sinceDisconnect>>
    /\ SamplingEffect

\* simulator intervals still running: the one simulationIntervalRef holds and
\* the orphaned ones, counted as one
simTimers == (IF simRefLive THEN 1 ELSE 0) + (IF simOrphaned THEN 1 ELSE 0)

\* One of the running simulator intervals fires and overwrites the live reading.
SimulationTick ==
    /\ simTimers > 0
    /\ \E r \in SimReadings : btRef' = r[1] /\ etRef' = r[2] /\ delivered' = r
    /\ UNCHANGED io
    /\ UNCHANGED <<status, data, events, elapsed, connStep, linkUp,
                   isSimulating, simRefLive, simOrphaned, showUndoDrop, undoTimer,
                   nextTick, errorMsg, sinceDisconnect, stopSnap>>

(* ------------------------------- import -------------------------------- *)

\* A faulty import that stops the simulation and enters the view mode before it
\* parses the file.
handleImportFileCommittingEarly ==
    /\ \E f \in ImportFiles :
       LET processedData == f.processedData
       IN /\ IF isSimulating
             THEN isSimulating' = FALSE /\ simRefLive' = FALSE
             ELSE UNCHANGED <<isSimulating, simRefLive>>
          /\ status' = FINISHED
          /\ elapsed' = NoTime
          /\ IF f.ok
             THEN /\ data' = processedData
                  /\ events' = f.events
                  /\ btRef' = processedData[Len(processedData)].bt
                  /\ etRef' = processedData[Len(processedData)].et
                  /\ UNCHANGED errorMsg
             ELSE /\ errorMsg' = "importFailed"
                  /\ UNCHANGED <<data, events, btRef, etRef>>
    /\ stopSnap' = NoSnap
    /\ UNCHANGED io
    /\ UNCHANGED delivered
    /\ UNCHANGED <<connStep, linkUp, simOrphaned, showUndoDrop, undoTimer,
                   sinceDisconnect>>
    /\ SamplingEffect

\* handleImportFile and the onload of its FileReader, taken as one step: the file
\* is parsed; on success the session is replaced, on failure only the error
\* message is set.
handleImportFile ==
    /\ \E f \in ImportFiles :
       LET processedData == f.processedData
       IN IF f.ok
          THEN /\ IF isSimulating
                  THEN isSimulating' = FALSE /\ simRefLive' = FALSE
                  ELSE UNCHANGED <<isSimulating, simRefLive>>
               /\ data' = processedData
               /\ events' = f.events
               /\ status' = FINISHED
               /\ elapsed' = NoTime
               /\ btRef' = processedData[Len(processedData)].bt
               /\ etRef' = processedData[Len(processedData)].et
               /\ UNCHANGED errorMsg
          ELSE /\ errorMsg' = "importFailed"
               /\ UNCHANGED <<status, data, events, elapsed, btRef, etRef,
                              isSimulating, simRefLive>>
    /\ stopSnap' = NoSnap
    /\ UNCHANGED io
    /\ UNCHANGED delivered
    /\ UNCHANGED <<connStep, linkUp, simOrphaned, showUndoDrop, undoTimer,
                   sinceDisconnect>>
    /\ SamplingEffect

Next ==
    \/ handleBluetoothConnect
    \/ GattConnected
    \/ ConnectResolved
    \/ ConnectRejected
    \/ OnReading
    \/ OnDisconnect
    \/ handleStartRoast
    \/ handleStopRoast
    \/ handleUndoDrop
    \/ DismissUndoToast
    \/ UndoTimerFires
    \/ handleReset
    \/ handleToggleEvent
    \/ SamplingTick
    \/ toggleSimulation
    \/ SimulationTick
    \/ handleImportFile

Spec == Init /\ [][Next]_vars

(* ------------------------------ properties ----------------------------- *)

\* a step in which handleImportFile commits a parsed file
ImportCommitted ==
    \E f \in ImportFiles :
        /\ f.ok
        /\ data' = f.processedData
        /\ events' = f.events
        /\ status' = FINISHED
        /\ elapsed' = NoTime

\* the status changes the state machine lists
ListedTransitions ==
    { <<IDLE, PREHEATING>>, <<PREHEATING, ROASTING>>, <<ROASTING, FINISHED>>,
      <<FINISHED, ROASTING>>, <<FINISHED, PREHEATING>> }
    \cup { <<s, IDLE>> : s \in RoastStatus }

\* C1: apart from a successful import, every change of status is idle->preheating,
\* preheating->roasting, roasting->finished, finished->roasting,
\* finished->preheating or any->idle.
C1_OnlyListedTransitions ==
    [][status' # status =>
          ImportCommitted \/ <<status, status'>> \in ListedTransitions]_vars

\* C2: startRoast leaves samples empty, events holding exactly the start entry
\* (time 0, temp the live bean reading), startTime the current time and status
\* roasting.
C2_StartRoastBeginsAfresh ==
    [][handleStartRoast =>
          /\ data' = <<>>
          /\ events' = <<[time |-> 0, label |-> "start", temp |-> btRef]>>
          /\ btRef' = btRef
          /\ elapsed' = 0
          /\ status' = ROASTING]_vars

\* a roast has just been started on a live reading
C2_Witness ==
    /\ status = ROASTING
    /\ elapsed = 0
    /\ data = <<>>
    /\ events = <<[time |-> 0, label |-> "start", temp |-> btRef]>>
    /\ btRef # InitialTemp
    /\ nextTick = TickSeconds

\* C3, as stated: samples grows only by the sampling tick, which fires only while
\* status is roasting and startTime is set.
C3_OnlyTickGrowsSamples ==
    [][Len(data') > Len(data) =>
          SamplingTick /\ status = ROASTING /\ elapsed # NoTime]_vars

\* C3, amended: apart from a successful import, which replaces samples, samples
\* grows only by the sampling tick appending one point, and the tick fires only
\* while status is roasting and startTime is set.
C3_OnlyTickOrImportGrowsSamples ==
    [][/\ Len(data') > Len(data) /\ ~ImportCommitted =>
            /\ status = ROASTING
            /\ elapsed # NoTime
            /\ nextTick # NoTime
            /\ data' = Append(data, data'[Len(data')])
       /\ SamplingTick => status = ROASTING /\ elapsed # NoTime]_vars

\* the sampling tick has appended a point to a running roast
C3_Witness ==
    /\ status = ROASTING
    /\ data # <<>>
    /\ data[Len(data)].time = elapsed
    /\ data[Len(data)].bt = btRef

\* C4: after a disconnect no sampling tick appends a point until the next
\* startRoast.
C4_NoSamplingAfterDisconnect ==
    [][sinceDisconnect => ~SamplingTick]_vars

\* C5: disconnect sets status to idle and leaves samples, events and startTime
\* as they were.
C5_DisconnectKeepsSession ==
    [][OnDisconnect =>
          /\ status' = IDLE
          /\ data' = data
          /\ events' = events
          /\ elapsed' = elapsed]_vars

\* a disconnect has interrupted a roast that had samples and events
C5_Witness ==
    /\ status = IDLE
    /\ errorMsg = "disconnected"
    /\ ~linkUp
    /\ data # <<>>
    /\ events # <<>>
    /\ elapsed # NoTime

\* C6: after a disconnect no simulator timer is running, and no step leaves two
\* simulator timers running.
C6_DisconnectStopsSimulation ==
    [][/\ OnDisconnect => simTimers' = 0
       /\ simTimers' <= 1]_vars

\* C7: stopRoast appends exactly one drop event, with the elapsed time and the
\* live bean reading, removes none and sets status to finished.
C7_StopRoastAppendsDrop ==
    [][handleStopRoast =>
          /\ elapsed # NoTime
          /\ events' = Append(events, [time |-> elapsed, label |-> "drop",
                                       temp |-> btRef])
          /\ status' = FINISHED]_vars

\* C8: an undoDrop that follows a stopRoast restores the events, samples and
\* startTime the stopRoast found, with status roasting.
C8_StopThenUndoIsIdentity ==
    [][handleUndoDrop /\ stopSnap # NoSnap =>
          /\ events' = stopSnap[1].events
          /\ data' = stopSnap[1].data
          /\ (elapsed' # NoTime) = stopSnap[1].started
          /\ elapsed' = elapsed
          /\ status' = ROASTING]_vars

\* C9: undoDrop changes status or events only while status is finished and the
\* grace timer is pending.
C9_UndoOnlyDuringGrace ==
    [][handleUndoDrop /\ (status' # status \/ events' # events) =>
          status = FINISHED /\ undoTimer # NoTime]_vars

\* C10: after undoDrop, reset and startRoast no grace timer is pending and the
\* undo toast is not shown.
C10_GraceTimerCancelled ==
    [][handleUndoDrop \/ handleReset \/ handleStartRoast =>
          undoTimer' = NoTime /\ ~showUndoDrop']_vars

(* --------------------------- fair scheduling --------------------------- *)

(* The event loop runs the callback of a timer that is due.  The sampling     *)
(* interval fires as long as it stays armed.  The grace timeout is due 5 s     *)
(* after handleStopRoast armed it; the clicks and callbacks that come in       *)
(* between take time, so a timeout that is armed again and again without ever  *)
(* being cleared comes due.                                                    *)
GraceNext ==
    \/ handleBluetoothConnect
    \/ GattConnected
    \/ ConnectResolved
    \/ ConnectRejected
    \/ OnDisconnect
    \/ handleStartRoast
    \/ handleStopRoast
    \/ handleUndoDrop
    \/ DismissUndoToast
    \/ UndoTimerFires
    \/ handleReset
    \/ SamplingTick
    \/ toggleSimulation
    \/ handleImportFile

FairSpec ==
    Init /\ [][GraceNext]_vars /\ WF_vars(SamplingTick) /\ SF_vars(UndoTimerFires)

\* the sampling interval is armed and the roast already holds MaxSamples points
SamplingAtBound == nextTick # NoTime /\ Len(data) >= MaxSamples

sourceActive == linkUp \/ isSimulating \/ simTimers > 0

\* C12: reset leaves samples and events empty and startTime null, and leaves the
\* status preheating if a device or a simulation is still active and idle if
\* none is.
C12_ResetStatusFollowsSource ==
    [][handleReset =>
          /\ data' = <<>>
          /\ events' = <<>>
          /\ elapsed' = NoTime
          /\ status' = IF sourceActive THEN PREHEATING ELSE IDLE]_vars

\* the labels the event handlers are called with
eventLabels == {b.label : b \in eventButtons} \cup {"drop"}

\* C13: outside a running roast (status idle, preheating or finished, or
\* startTime null) markEvent and toggleEvent change nothing: for every label the
\* events they leave are the events they found; they set nothing else.
C13_EventHandlersIdleOutsideRoast ==
    (status # ROASTING \/ elapsed = NoTime) =>
        \A label \in eventLabels :
            handleEvent(label) = events /\ toggleEvent(label) = events

\* a roast with a charge event in memory while the status is not roasting: an
\* unguarded toggle would remove the charge event, an unguarded mark add one
C13_Witness ==
    /\ status \in {IDLE, PREHEATING, FINISHED}
    /\ elapsed # NoTime
    /\ hasEvent("charge")

\* the number of entries of evs with the label
CountLabel(evs, label) ==
    Cardinality({i \in 1..Len(evs) : evs[i].label = label})

\* the entries of evs with another label, in order
Others(evs, label) == SelectSeq(evs, LAMBDA e : e.label # label)

handleToggleEventTwice ==
    /\ status = ROASTING
    /\ \E b \in eventButtons :
          /\ b.label \in PressedLabels
          /\ b.needs = "none" \/ hasEvent(b.needs)
          /\ events' =
                IF status # ROASTING \/ elapsed = NoTime THEN events
                ELSE IF hasEvent(b.label)
                     THEN SelectSeq(events, LAMBDA e : e.label # b.label)
                     ELSE Append(toggled(events, b.label),
                                 [time |-> Max(0, elapsed),
                                  label |-> b.label, temp |-> btRef])
    /\ UNCHANGED io
    /\ UNCHANGED delivered
    /\ UNCHANGED <<status, data, elapsed, btRef, etRef, connStep, linkUp,
                   isSimulating, simRefLive, simOrphaned, showUndoDrop,
                   undoTimer, nextTick, errorMsg, sinceDisconnect, stopSnap>>

BatchNext ==
    \/ Next
    \/ handleToggleEventTwice

BatchSpec == Init /\ [][BatchNext]_vars

\* the milestone labels
milestoneLabels == eventLabels

C16_FailedConnectKeepsState ==
    [][/\ ConnectRejected =>
            /\ status' = status
            /\ data' = data
            /\ events' = events
            /\ elapsed' = elapsed
            /\ errorMsg' = "connectFailed"
            /\ ~isConnecting'
       /\ handleBluetoothConnect \/ GattConnected => status' = status
       /\ ConnectResolved => status' = PREHEATING]_vars

\* a connect attempt has failed while an earlier roast was in memory: the status
\* is idle, the samples and events are still there and the error is shown
C16_Witness ==
    /\ errorMsg = "connectFailed"
    /\ ~isConnecting
    /\ status = IDLE
    /\ data # <<>>
    /\ events # <<>>

\* C17: in every reachable state each DataPoint of samples has a time strictly
\* greater than that of the DataPoint before it.
C17_SamplesStrictlyOrdered ==
    \A i \in 1..(Len(data) - 1) : data[i].time < data[i + 1].time

\* C18: the bt and et of the DataPoint a sampling tick appends are the last
\* (bt, et) pair the transport or the simulator delivered before the tick.
C18_TickRecordsLatestReading ==
    [][SamplingTick =>
          /\ data'[Len(data')].bt = delivered[1]
          /\ data'[Len(data')].et = delivered[2]]_vars

\* C19: an import that fails leaves status, samples, events, startTime, the live
\* reading, the simulation and the timers as they were and only shows the
\* error; whatever else an import changes, it changes by committing a file that
\* was parsed to the end.
C19_FailedImportKeepsState ==
    [][handleImportFile =>
          \/ /\ errorMsg' = "importFailed"
             /\ UNCHANGED <<status, data, events, elapsed, btRef, etRef,
                            isSimulating, simRefLive, simOrphaned, nextTick,
                            undoTimer, showUndoDrop, connStep, linkUp>>
          \/ /\ errorMsg' = errorMsg
             /\ ImportCommitted]_vars

\* the import error is shown over a simulated roast that is still running with
\* its samples and events
C19_Witness ==
    /\ errorMsg = "importFailed"
    /\ status = ROASTING
    /\ isSimulating
    /\ elapsed # NoTime
    /\ nextTick # NoTime
    /\ data # <<>>
    /\ Len(events) = 2

(* ---------------------------- line framing ----------------------------- *)

(* handleNotifications of the Bluetooth service and handleData of the serial  *)
(* service are the same code.  A string is a sequence of characters; CR and   *)
(* LF are the line terminators, " " is white space, "7" and "8" stand for the  *)
(* other characters.                                                           *)

MaxStreamLen == 4

CR == "\r"

LF == "\n"

Terminators == {CR, LF}

Alphabet == {"7", "8", " "} \cup Terminators

\* the character streams a device can send
Streams == UNION { [1..n -> Alphabet] : n \in 0..MaxStreamLen }

\* the session variables, which the framing leaves alone
session == <<status, data, events, elapsed, btRef, etRef, connStep, linkUp,
             isSimulating, simRefLive, simOrphaned, showUndoDrop, undoTimer,
             nextTick, errorMsg, sinceDisconnect, stopSnap, delivered>>

\* !line.trim(): the line holds white space only
isBlank(line) == \A i \in 1..Len(line) : line[i] = " "

\* s.split(/[\r\n]+/), continued from a part cur that has been read so far;
\* afterSep says that the character before s was a terminator
RECURSIVE split(_, _, _)
split(s, cur, afterSep) ==
    IF s = <<>> THEN <<cur>>
    ELSE IF Head(s) \in Terminators
         THEN IF afterSep
              THEN split(Tail(s), cur, TRUE)
              ELSE <<cur>> \o split(Tail(s), <<>>, TRUE)
         ELSE split(Tail(s), Append(cur, Head(s)), FALSE)

\* A faulty framing that forgets the incomplete last part.
handleNotificationsDroppingTail(buf, chunk) ==
    LET joined == buf \o chunk
    IN IF \E i \in 1..Len(joined) : joined[i] \in Terminators
       THEN LET parts == split(joined, <<>>, FALSE)
            IN [buffer |-> <<>>,
                lines |-> SelectSeq(SubSeq(parts, 1, Len(parts) - 1),
                                    LAMBDA line : ~isBlank(line))]
       ELSE [buffer |-> joined, lines |-> <<>>]

\* handleNotifications on a decoded chunk, with buf in the buffer: the buffer it
\* leaves and the lines it hands to parseGreedy
handleNotifications(buf, chunk) ==
    LET joined == buf \o chunk
    IN IF \E i \in 1..Len(joined) : joined[i] \in Terminators
       THEN LET parts == split(joined, <<>>, FALSE)
            IN [buffer |-> parts[Len(parts)],
                lines |-> SelectSeq(SubSeq(parts, 1, Len(parts) - 1),
                                    LAMBDA line : ~isBlank(line))]
       ELSE [buffer |-> joined, lines |-> <<>>]

\* characteristicvaluechanged: the next characters of the stream arrive as one
\* chunk, of any length.
OnNotification ==
    /\ wire.pos < Len(wire.stream)
    /\ \E k \in 1..(Len(wire.stream) - wire.pos) :
          LET chunk == SubSeq(wire.stream, wire.pos + 1, wire.pos + k)
              framed == handleNotifications(buffer, chunk)
          IN /\ buffer' = framed.buffer
             /\ parsedLines' = parsedLines \o framed.lines
             /\ wire' = [wire EXCEPT !.pos = @ + k, !.chunks = @ + 1]
    /\ UNCHANGED <<session, parsing, csvFile, isExportModalOpen, adapter>>

\* A fresh service, and any stream about to arrive.
FramingInit ==
    /\ SessionInit
    /\ ParsingIdle
    /\ NoExport
    /\ ModalClosed
    /\ AdapterFresh
    /\ buffer = <<>>
    /\ parsedLines = <<>>
    /\ \E s \in Streams : wire = [stream |-> s, pos |-> 0, chunks |-> 0]

FramingNext == OnNotification

FramingSpec == FramingInit /\ [][FramingNext]_vars

\* the non-blank segments of s that a terminator follows, in order; cur is the
\* segment read so far
RECURSIVE TerminatedLines(_, _)
TerminatedLines(s, cur) ==
    IF s = <<>> THEN <<>>
    ELSE IF Head(s) \in Terminators
         THEN (IF isBlank(cur) THEN <<>> ELSE <<cur>>)
              \o TerminatedLines(Tail(s), <<>>)
         ELSE TerminatedLines(Tail(s), Append(cur, Head(s)))

\* the characters of s after its last terminator
RECURSIVE UnterminatedTail(_, _)
UnterminatedTail(s, cur) ==
    IF s = <<>> THEN cur
    ELSE IF Head(s) \in Terminators
         THEN UnterminatedTail(Tail(s), <<>>)
         ELSE UnterminatedTail(Tail(s), Append(cur, Head(s)))

\* the characters that have arrived
arrived == SubSeq(wire.stream, 1, wire.pos)

\* C20: however the stream is cut into chunks, the lines handed to the parser
\* are the non-blank segments of the arrived characters that a terminator
\* follows, and the buffer holds the unterminated tail, not yet parsed.
C20_FramingIndependentOfChunks ==
    /\ parsedLines = TerminatedLines(arrived, <<>>)
    /\ buffer = UnterminatedTail(arrived, <<>>)

\* a line ended by CR LF has arrived with the CR and the LF in different chunks,
\* followed by the beginning of the next line
C20_Witness ==
    /\ wire = [stream |-> <<"7", CR, LF, "8">>, pos |-> 4, chunks |-> 4]
    /\ parsedLines = << <<"7">> >>
    /\ buffer = <<"8">>

(* ---------------------------- line parsing ----------------------------- *)
(* parseGreedy of both services.  A line is a sequence of one-character    *)
(* strings.  A parsed number is held in ten-thousandths of a degree, which *)
(* is exact for the lines below: none has a token with more than four      *)
(* fractional digits.  In ParserSpec the cells btRef and etRef hold such   *)
(* numbers.                                                                *)

\* lines of at most this many characters are all parsed
MaxLineLen == 4

\* device records of at most this many comma-separated fields are all parsed
MaxFields == 4

\* one degree, in ten-thousandths
Unit == 10000

\* Math.abs(n) > 0.001, in ten-thousandths
Epsilon == 10

Digits == <<"0", "1", "2", "3", "4", "5", "6", "7", "8", "9">>

isDigit(c) == \E i \in 1..Len(Digits) : Digits[i] = c

DigitVal(c) == (CHOOSE i \in 1..Len(Digits) : Digits[i] = c) - 1

Whitespace == {" ", "\t", CR, LF}

\* String.prototype.trim
RECURSIVE trim(_)
trim(s) ==
    IF s = <<>> THEN s
    ELSE IF Head(s) \in Whitespace THEN trim(Tail(s))
    ELSE IF s[Len(s)] \in Whitespace THEN trim(SubSeq(s, 1, Len(s) - 1))
    ELSE s

\* the first position from i on that holds no digit
RECURSIVE RunEnd(_, _)
RunEnd(s, i) ==
    IF i <= Len(s) /\ isDigit(s[i]) THEN RunEnd(s, i + 1) ELSE i

\* The match of /[-+]?[0-9]*\.?[0-9]+/ that starts at position i: the position
\* after it, or 0 when there is none.  The sign and the first run of digits are
\* taken greedily; the dot is taken only when a digit follows it, and with no
\* dot taken the run of digits must not be empty.
MatchAt(s, i) ==
    LET j == IF s[i] \in {"-", "+"} THEN i + 1 ELSE i
        d == RunEnd(s, j)
    IN IF d < Len(s) /\ s[d] = "." /\ isDigit(s[d + 1]) THEN RunEnd(s, d + 1)
       ELSE IF d > j THEN d
       ELSE 0

\* cleanLine.match(/.../g) from position i on: the matches, left to right, none
\* overlapping; the empty sequence stands for null
RECURSIVE matches(_, _)
matches(s, i) ==
    IF i > Len(s) THEN <<>>
    ELSE LET e == MatchAt(s, i)
         IN IF e = 0 THEN matches(s, i + 1)
            ELSE <<SubSeq(s, i, e - 1)>> \o matches(s, e)

\* the value of a run of digits read as a decimal integer
RECURSIVE Decimal(_)
Decimal(ds) ==
    IF ds = <<>> THEN 0
    ELSE 10 * Decimal(SubSeq(ds, 1, Len(ds) - 1)) + DigitVal(ds[Len(ds)])

\* the first four fractional digits, in ten-thousandths
Fraction(ds) ==
    Decimal([i \in 1..4 |-> IF i <= Len(ds) THEN ds[i] ELSE "0"])

\* parseFloat of a matched token
parseFloat(tok) ==
    LET signed == tok[1] \in {"-", "+"}
        body == IF signed THEN Tail(tok) ELSE tok
        dots == {i \in 1..Len(body) : body[i] = "."}
        dot == IF dots = {} THEN Len(body) + 1 ELSE CHOOSE i \in dots : TRUE
        magnitude == Unit * Decimal(SubSeq(body, 1, dot - 1))
                     + Fraction(SubSeq(body, dot + 1, Len(body)))
    IN IF tok[1] = "-" THEN -magnitude ELSE magnitude

\* matches.map(parseFloat) of the trimmed line
numbers(cleanLine) ==
    LET found == matches(cleanLine, 1)
    IN [i \in 1..Len(found) |-> parseFloat(found[i])]

\* the trimmed line is empty or a comment
rejected(cleanLine) == cleanLine = <<>> \/ cleanLine[1] = "#"

\* numbers.filter((_, idx) => idx !== 2): index 2 of the source is the third
\* number
potentialETs(nums) ==
    [i \in 1..(Len(nums) - 1) |-> IF i < 3 THEN nums[i] ELSE nums[i + 1]]

\* potentialETs.find(n => Math.abs(n) > 0.001), 0 when it finds none
foundET(nums) ==
    LET cands == potentialETs(nums)
        hits == {i \in 1..Len(cands) : Abs(cands[i]) > Epsilon}
    IN IF hits = {} THEN 0
       ELSE cands[CHOOSE i \in hits : \A k \in hits : i <= k]

\* A faulty parser that reports a line without a number as a reading of zero.
parseGreedyZeroDefault(line) ==
    LET cleanLine == trim(line)
        nums == IF rejected(cleanLine) THEN <<>> ELSE numbers(cleanLine)
    IN IF Len(nums) >= 3 THEN <<[bt |-> nums[3], et |-> foundET(nums)]>>
       ELSE IF Len(nums) = 2 THEN <<[bt |-> nums[1], et |-> nums[2]]>>
       ELSE IF Len(nums) = 1 THEN <<[bt |-> nums[1], et |-> 0]>>
       ELSE <<[bt |-> 0, et |-> 0]>>

\* A faulty parser that takes the first two numbers of a long record.
parseGreedyFirstTwo(line) ==
    LET cleanLine == trim(line)
        nums == IF rejected(cleanLine) THEN <<>> ELSE numbers(cleanLine)
    IN IF Len(nums) >= 2 THEN <<[bt |-> nums[1], et |-> nums[2]]>>
       ELSE IF Len(nums) = 1 THEN <<[bt |-> nums[1], et |-> 0]>>
       ELSE <<>>

\* parseGreedy of the Bluetooth service and of the current serial service: the
\* calls it makes to onDataCallback, none or one
parseGreedy(line) ==
    LET cleanLine == trim(line)
        nums == IF rejected(cleanLine) THEN <<>> ELSE numbers(cleanLine)
    IN IF Len(nums) >= 3 THEN <<[bt |-> nums[3], et |-> foundET(nums)]>>
       ELSE IF Len(nums) = 2 THEN <<[bt |-> nums[1], et |-> nums[2]]>>
       ELSE IF Len(nums) = 1 THEN <<[bt |-> nums[1], et |-> 0]>>
       ELSE <<>>

\* parseGreedy of the serial service that caches lastET: the calls it makes to
\* onDataCallback and the lastET it leaves
parseGreedyLastET(line, cached) ==
    LET cleanLine == trim(line)
        nums == IF rejected(cleanLine) THEN <<>> ELSE numbers(cleanLine)
    IN IF Len(nums) >= 2
       THEN [calls |-> <<[bt |-> nums[1], et |-> nums[2]]>>, lastET |-> nums[2]]
       ELSE IF Len(nums) = 1
       THEN [calls |-> <<[bt |-> nums[1], et |-> cached]>>, lastET |-> cached]
       ELSE [calls |-> <<>>, lastET |-> cached]

LineAlphabet == {"0", "5", ".", "-", ",", " ", "#"}

\* every line of at most MaxLineLen characters
ShortLines == UNION { [1..n -> LineAlphabet] : n \in 0..MaxLineLen }

\* the fields a device record is made of: 0.00, 29.65, 150.2, -0.0005
Fields ==
    { <<"0", ".", "0", "0">>,
      <<"2", "9", ".", "6", "5">>,
      <<"1", "5", "0", ".", "2">>,
      <<"-", "0", ".", "0", "0", "0", "5">> }

\* fs[1],fs[2],...
RECURSIVE Joined(_)
Joined(fs) ==
    IF Len(fs) = 1 THEN fs[1]
    ELSE fs[1] \o <<",">> \o Joined(Tail(fs))

\* every record of at most MaxFields fields
RecordLines ==
    { Joined(fs) : fs \in UNION { [1..n -> Fields] : n \in 1..MaxFields } }

DeviceLines == ShortLines \cup RecordLines

\* 150.2,200.5
PriorLine ==
    <<"1", "5", "0", ".", "2", ",", "2", "0", "0", ".", "5">>

\* The callback given to bluetoothService.connect, called with each reading.
onData(calls) ==
    IF calls = <<>> THEN UNCHANGED <<btRef, etRef, delivered>>
    ELSE /\ btRef' = calls[Len(calls)].bt
         /\ etRef' = calls[Len(calls)].et
         /\ delivered' = <<calls[Len(calls)].bt, calls[Len(calls)].et>>

\* The Bluetooth service parses the next framed line.
BluetoothLine ==
    /\ port = "bluetooth"
    /\ pending # <<>>
    /\ LET calls == parseGreedy(Head(pending))
       IN /\ emitted' = Append(emitted, calls)
          /\ onData(calls)
    /\ parsedLines' = Append(parsedLines, Head(pending))
    /\ pending' = Tail(pending)
    /\ UNCHANGED <<port, lastET, buffer, wire, csvFile, isExportModalOpen,
                   adapter>>
    /\ UNCHANGED <<status, data, events, elapsed, connStep, linkUp,
                   isSimulating, simRefLive, simOrphaned, showUndoDrop,
                   undoTimer, nextTick, errorMsg, sinceDisconnect, stopSnap>>

\* The serial service parses the next framed line.  The App gives this service
\* no callback, so the session sees nothing of it.
SerialLine ==
    /\ port = "serial"
    /\ pending # <<>>
    /\ LET parsed == parseGreedyLastET(Head(pending), lastET)
       IN /\ emitted' = Append(emitted, parsed.calls)
          /\ lastET' = parsed.lastET
    /\ parsedLines' = Append(parsedLines, Head(pending))
    /\ pending' = Tail(pending)
    /\ UNCHANGED <<port, buffer, wire, csvFile, isExportModalOpen, adapter,
                   session>>

\* A connected device about to send one line, or the prior line and then one
\* line, to either service.
ParserInit ==
    /\ status = CONNECTED
    /\ data = <<>>
    /\ events = <<>>
    /\ elapsed = NoTime
    /\ btRef = InitialTemp * Unit
    /\ etRef = InitialTemp * Unit
    /\ connStep = "none"
    /\ linkUp = TRUE
    /\ isSimulating = FALSE
    /\ simRefLive = FALSE
    /\ simOrphaned = FALSE
    /\ showUndoDrop = FALSE
    /\ undoTimer = NoTime
    /\ nextTick = NoTime
    /\ errorMsg = "none"
    /\ sinceDisconnect = FALSE
    /\ stopSnap = NoSnap
    /\ delivered = <<InitialTemp * Unit, InitialTemp * Unit>>
    /\ buffer = <<>>
    /\ wire = [stream |-> <<>>, pos |-> 0, chunks |-> 0]
    /\ parsedLines = <<>>
    /\ NoExport
    /\ ModalClosed
    /\ AdapterFresh
    /\ port \in {"bluetooth", "serial"}
    /\ \E line \in DeviceLines : pending \in {<<line>>, <<PriorLine, line>>}
    /\ lastET = InitialLastET
    /\ emitted = <<>>

ParserNext == BluetoothLine \/ SerialLine

ParserSpec == ParserInit /\ [][ParserNext]_vars

\* the numbers parseGreedy extracts from a line, none when it rejects the line
extracted(line) ==
    IF rejected(trim(line)) THEN <<>> ELSE numbers(trim(line))

\* the first number at an index other than 2 (the third) whose absolute value
\* exceeds 0.001, or 0 when there is none
FirstOther(nums) ==
    LET idx == {i \in (1..Len(nums)) \ {3} : Abs(nums[i]) > Epsilon}
    IN IF idx = {} THEN 0
       ELSE nums[CHOOSE i \in idx : \A k \in idx : i <= k]

\* the lines parsed so far by the Bluetooth service
bluetoothParsed ==
    IF port = "bluetooth" THEN 1..Len(parsedLines) ELSE {}

\* C21: for a line with three or more extracted numbers the parser emits one
\* reading, with bt the third number and et the first number at another index
\* whose absolute value exceeds 0.001, or et = 0 when every other number is
\* within 0.001 of zero.
C21_ThirdNumberIsBeanTemp ==
    \A i \in bluetoothParsed :
        LET nums == extracted(parsedLines[i])
        IN Len(nums) >= 3 =>
              emitted[i] = <<[bt |-> nums[3], et |-> FirstOther(nums)]>>

\* the record 0.00,0.00,29.65,0.00 was parsed to bt = 29.65, et = 0
C21_Witness ==
    /\ port = "bluetooth"
    /\ parsedLines # <<>>
    /\ extracted(parsedLines[Len(parsedLines)]) = <<0, 0, 296500, 0>>
    /\ emitted[Len(emitted)] = <<[bt |-> 296500, et |-> 0]>>

\* C22: a line with exactly two extracted numbers is emitted as (numbers[0],
\* numbers[1]) and a line with exactly one as (numbers[0], 0), by either
\* service and whatever line was parsed before it.
C22_ShortLinesEmittedAsRead ==
    \A i \in 1..Len(parsedLines) :
        LET nums == extracted(parsedLines[i])
        IN /\ Len(nums) = 2 => emitted[i] = <<[bt |-> nums[1], et |-> nums[2]]>>
           /\ Len(nums) = 1 => emitted[i] = <<[bt |-> nums[1], et |-> 0]>>

\* the same for the Bluetooth service alone
C22_BluetoothShortLines ==
    \A i \in bluetoothParsed :
        LET nums == extracted(parsedLines[i])
        IN /\ Len(nums) = 2 => emitted[i] = <<[bt |-> nums[1], et |-> nums[2]]>>
           /\ Len(nums) = 1 => emitted[i] = <<[bt |-> nums[1], et |-> 0]>>

\* the line is empty after trimming, starts with '#', or holds no numeric token
unreadable(line) ==
    \/ trim(line) = <<>>
    \/ trim(line)[1] = "#"
    \/ matches(trim(line), 1) = <<>>

\* C23: a device line that is empty after trimming, starts with '#' or holds
\* no numeric token produces no reading: the callback is not called, and the
\* live (bt, et) reading and the session stay as they were.
C23_UnreadableLineDropped ==
    [][BluetoothLine /\ unreadable(Head(pending)) =>
          /\ emitted' = Append(emitted, <<>>)
          /\ UNCHANGED session]_vars

\* a comment line that holds a digit was dropped after a reading of 150.2, 200.5,
\* which is still the live reading
C23_Witness ==
    /\ port = "bluetooth"
    /\ Len(parsedLines) = 2
    /\ trim(parsedLines[2]) # <<>>
    /\ trim(parsedLines[2])[1] = "#"
    /\ \E k \in 1..Len(parsedLines[2]) : isDigit(parsedLines[2][k])
    /\ emitted = <<<<[bt |-> 1502000, et |-> 2005000]>>, <<>>>>
    /\ btRef = 1502000
    /\ etRef = 2005000

(* ---------------------------- rate of rise ----------------------------- *)
(* The sampling tick and recalculateRoR over series of samples: RorSpec is *)
(* a roast in which the reading moves between the ticks, and which can be  *)
(* imported back as a file that holds its (time, bt, et) rows.             *)

\* the series recorded has at most this many samples
MaxSeries == 5

\* seconds from one sampling tick to the next: the interval is 1000 ms, and a
\* tick the browser delays comes a second late
TickGaps == {TickSeconds, TickSeconds + 1}

\* how far (bt, et) move from one tick to the next: not at all, by one degree,
\* or by a jump of 300 degrees
Steps == {<<0, 0>>, <<1, -1>>, <<300, -300>>}

\* The sampling tick fires gap seconds after the one before, and reads the
\* cells the reading callback has written since.
SeriesTick ==
    /\ status = ROASTING
    /\ elapsed # NoTime
    /\ Len(data) < MaxSeries
    /\ \E gap \in TickGaps, step \in Steps :
          /\ btRef' = btRef + step[1]
          /\ etRef' = etRef + step[2]
          /\ elapsed' = elapsed + gap
    /\ delivered' = <<btRef', etRef'>>
    /\ data' = Append(data, NewDataPoint(data, elapsed', btRef', etRef'))
    /\ nextTick' = TickSeconds
    /\ UNCHANGED io
    /\ UNCHANGED <<status, events, connStep, linkUp, isSimulating, simRefLive,
                   simOrphaned, showUndoDrop, undoTimer, errorMsg,
                   sinceDisconnect, stopSnap>>

\* the (time, bt, et) rows of a file that holds the series
SeriesRows(s) ==
    [i \in 1..Len(s) |->
        [time |-> s[i].time, bt |-> s[i].bt, et |-> s[i].et, ror |-> 0,
         et_ror |-> 0]]

\* handleImportFile on a file that holds the rows of the series just recorded
\* and no event.
ImportSeries ==
    /\ status = ROASTING
    /\ data # <<>>
    /\ LET processedData == recalculateRoR(SeriesRows(data))
       IN /\ data' = processedData
          /\ btRef' = processedData[Len(processedData)].bt
          /\ etRef' = processedData[Len(processedData)].et
    /\ events' = <<>>
    /\ status' = FINISHED
    /\ elapsed' = NoTime
    /\ stopSnap' = NoSnap
    /\ UNCHANGED io
    /\ UNCHANGED delivered
    /\ UNCHANGED <<connStep, linkUp, isSimulating, simRefLive, simOrphaned,
                   showUndoDrop, undoTimer, errorMsg, sinceDisconnect>>
    /\ SamplingEffect

\* A roast just started on a connected device that reads 150, 200.
RorInit ==
    /\ status = ROASTING
    /\ data = <<>>
    /\ events = <<[time |-> 0, label |-> "start", temp |-> SimStartBT]>>
    /\ elapsed = 0
    /\ btRef = SimStartBT
    /\ etRef = SimStartET
    /\ connStep = "none"
    /\ linkUp = TRUE
    /\ isSimulating = FALSE
    /\ simRefLive = FALSE
    /\ simOrphaned = FALSE
    /\ showUndoDrop = FALSE
    /\ undoTimer = NoTime
    /\ nextTick = TickSeconds
    /\ errorMsg = "none"
    /\ sinceDisconnect = FALSE
    /\ stopSnap = NoSnap
    /\ delivered = <<SimStartBT, SimStartET>>
    /\ buffer = <<>>
    /\ wire = [stream |-> <<>>, pos |-> 0, chunks |-> 0]
    /\ parsedLines = <<>>
    /\ ParsingIdle
    /\ NoExport
    /\ ModalClosed
    /\ AdapterFresh

RorNext == SeriesTick \/ ImportSeries

RorSpec == RorInit /\ [][RorNext]_vars

\* the regression set of the sampling tick that stored sample i of a series the
\* ticks have built: the samples before it that are in the window, and itself
regressionPoints(s, i) ==
    Append(SelectAfter(SubSeq(s, 1, i - 1), s[i].time - LOOKBACK_WINDOW), s[i])

\* the series was built by the sampling tick alone
liveSeries == status = ROASTING

\* C24: every ror and et_ror stored in a sample, by the sampling tick or by the
\* recomputation of an import, lies between -50 and 100 degrees per minute
\* (-500 and 1000 tenths), however far the temperature jumps between samples.
C24_RoRWithinBand ==
    \A i \in 1..Len(data) :
        /\ data[i].ror >= -500 /\ data[i].ror <= 1000
        /\ data[i].et_ror >= -500 /\ data[i].et_ror <= 1000

\* jumps of 300 degrees were recorded and then imported, and both clamps acted:
\* the last sample holds ror = 100 and et_ror = -50
C24_Witness ==
    /\ status = FINISHED
    /\ Len(data) >= 5
    /\ data[Len(data)].bt - data[Len(data) - 1].bt = 300
    /\ data[Len(data)].ror = 1000
    /\ data[Len(data)].et_ror = -500

\* C25: in the live path the stored RoR is exactly 0 whenever the regression
\* set (the samples in the window and the new one) has fewer than 5 points or
\* spans no more than 5 seconds; a RoR other than 0 is stored only when both
\* thresholds are met.
C25_LiveRoRZeroBelowThreshold ==
    liveSeries =>
        \A i \in 1..Len(data) :
            LET pts == regressionPoints(data, i)
            IN Len(pts) < 5 \/ pts[Len(pts)].time - pts[1].time <= 5 =>
                  data[i].ror = 0 /\ data[i].et_ror = 0

\* a rising series stored 0 for its fourth sample, whose regression set spans 6
\* seconds, and 30 degrees per minute for its fifth
C25_Witness ==
    /\ liveSeries
    /\ Len(data) = 5
    /\ data[4].time - data[1].time = 6
    /\ data[4].bt - data[1].bt = 3
    /\ data[4].ror = 0
    /\ data[5].ror = 300

\* every sample of the series holds the same bean temperature
constantBT(s) == \A i \in 1..Len(s) : s[i].bt = s[1].bt

\* every sample of the series holds the same environment temperature
constantET(s) == \A i \in 1..Len(s) : s[i].et = s[1].et

\* the thresholds of both paths are met at the last sample of the series
thresholdsMet(s) ==
    /\ Len(s) >= 5
    /\ s[Len(s)].time - s[1].time > 5

\* C26: for a series of constant temperature the RoR is exactly 0 at every
\* sample, before and after the thresholds are met, whatever the sample times,
\* in the series the ticks store and in the series an import recomputes.
C26_FlatSeriesHasZeroRoR ==
    /\ constantBT(data) => \A i \in 1..Len(data) : data[i].ror = 0
    /\ constantET(data) => \A i \in 1..Len(data) : data[i].et_ror = 0

\* a flat series that meets the thresholds was recorded with ticks of both
\* lengths, then imported, and holds 0 throughout
C26_Witness ==
    /\ status = FINISHED
    /\ thresholdsMet(data)
    /\ \E i \in 2..Len(data) : data[i].time - data[i - 1].time = TickSeconds
    /\ constantBT(data)
    /\ constantET(data)
    /\ \A i \in 1..Len(data) : data[i].ror = 0 /\ data[i].et_ror = 0

\* the points lie on one line that rises
risingAtConstantRate(pts) ==
    /\ Len(pts) >= 2
    /\ pts[2].time > pts[1].time
    /\ pts[2].value > pts[1].value
    /\ \A k \in 1..Len(pts) :
          (pts[k].value - pts[1].value) * (pts[2].time - pts[1].time)
              = (pts[2].value - pts[1].value) * (pts[k].time - pts[1].time)

\* the rate of such points in degrees per minute, as a fraction
rateOf(pts) ==
    [num |-> 60 * (pts[2].value - pts[1].value),
     den |-> pts[2].time - pts[1].time]

\* stored, in tenths of a degree per minute, is within 0.1 of the rate r
withinTenth(stored, r) == Abs(stored * r.den - 10 * r.num) <= r.den

\* the regression sets of sample i that rise at a constant rate once the
\* thresholds are met, each with the RoR stored for it
risingSets(i) ==
    LET pts == regressionPoints(data, i)
    IN IF thresholdsMet(pts)
       THEN { c \in { [pts |-> BTPoints(pts), stored |-> data[i].ror],
                      [pts |-> ETPoints(pts), stored |-> data[i].et_ror] } :
              risingAtConstantRate(c.pts) }
       ELSE {}

\* C27 as stated: for a series rising at a constant rate r, once the thresholds
\* are met the stored RoR is within 0.1 of r.
C27_LinearSeriesStoresRate ==
    liveSeries =>
        \A i \in 1..Len(data) : \A c \in risingSets(i) :
            withinTenth(c.stored, rateOf(c.pts))

\* C27 amended: for a series rising at a constant rate r, once the thresholds
\* are met the stored RoR is within 0.1 of r when r is at most 100 degrees per
\* minute, and is 100 when r is more.
C27_LinearSeriesStoresClampedRate ==
    liveSeries =>
        \A i \in 1..Len(data) : \A c \in risingSets(i) :
            IF rateOf(c.pts).num <= 100 * rateOf(c.pts).den
            THEN withinTenth(c.stored, rateOf(c.pts))
            ELSE c.stored = 1000

\* five samples two seconds apart, one degree up each, stored 30 degrees per
\* minute for the fifth
C27_Witness ==
    /\ liveSeries
    /\ Len(data) = 5
    /\ risingAtConstantRate(BTPoints(data))
    /\ rateOf(BTPoints(data)) = [num |-> 60, den |-> 2]
    /\ data[5].ror = 300

\* C28: the recomputation of an import is equivalent to the live path:
\* recalculateRoR gives each sample of a series the ror and et_ror the
\* sampling tick stored for it, given the same samples before it.
C28_BatchEqualsLive ==
    liveSeries => recalculateRoR(data) = data

(* ------------------------- CSV export and import ----------------------- *)
(* handleConfirmExport writes the session as a CSV file, and the CSV       *)
(* branch of handleImportFile reads a CSV file.  A file is the sequence of *)
(* its lines and a line is a sequence of characters.  In CsvSpec and       *)
(* ImportSpec a temperature is held in ten-thousandths of a degree, as in  *)
(* ParserSpec; a time is in whole seconds.  An event label that is not one *)
(* of the session's own is the text of its cell.                           *)

\* the session exported holds at most this many milestone events
MaxEvents == 2

\* the labels of the milestone tag dictionary
canonicalLabels ==
    {"charge", "dryEnd", "fcStart", "fcEnd", "scStart", "scEnd", "drop", "tp"}

\* labelMap of handleConfirmExport, and labelMap[label] || label
exportTag(label) ==
    CASE label = "charge"  -> "CHARGE"
      [] label = "dryEnd"  -> "DRYe"
      [] label = "fcStart" -> "FCs"
      [] label = "fcEnd"   -> "FCe"
      [] label = "scStart" -> "SCs"
      [] label = "scEnd"   -> "SCe"
      [] label = "drop"    -> "DROP"
      [] label = "tp"      -> "TP"
      [] OTHER             -> label

\* the texts an event cell holds in the files written and read here
CellTexts ==
    {"CHARGE", "DRYe", "FCs", "FCe", "SCs", "SCe", "DROP", "TP", "start",
     "Charge", "FC START"}

\* the characters of a text; "start" stands for the two characters of 开始
Text(str) ==
    CASE str = "CHARGE"   -> <<"C", "H", "A", "R", "G", "E">>
      [] str = "DRYe"     -> <<"D", "R", "Y", "e">>
      [] str = "FCs"      -> <<"F", "C", "s">>
      [] str = "FCe"      -> <<"F", "C", "e">>
      [] str = "SCs"      -> <<"S", "C", "s">>
      [] str = "SCe"      -> <<"S", "C", "e">>
      [] str = "DROP"     -> <<"D", "R", "O", "P">>
      [] str = "TP"       -> <<"T", "P">>
      [] str = "start"    -> <<"s", "t", "a", "r", "t">>
      [] str = "Charge"   -> <<"C", "h", "a", "r", "g", "e">>
      [] str = "FC START" -> <<"F", "C", " ", "S", "T", "A", "R", "T">>
      [] str = "DRY END"  -> <<"D", "R", "Y", " ", "E", "N", "D">>
      [] str = "FC END"   -> <<"F", "C", " ", "E", "N", "D">>

\* the label that is the text of a cell
Name(cell) ==
    IF \E str \in CellTexts : Text(str) = cell
    THEN CHOOSE str \in CellTexts : Text(str) = cell
    ELSE "unlisted"

LowerCase == <<"a", "b", "c", "d", "e", "f", "g", "h", "i", "j", "k", "l", "m", "n", "o", "p", "q", "r", "s", "t", "u", "v", "w", "x", "y", "z">>

UpperCase == <<"A", "B", "C", "D", "E", "F", "G", "H", "I", "J", "K", "L", "M", "N", "O", "P", "Q", "R", "S", "T", "U", "V", "W", "X", "Y", "Z">>

\* the capital of each small letter
UpperOf ==
    [c \in {LowerCase[k] : k \in 1..Len(LowerCase)} |->
        UpperCase[CHOOSE k \in 1..Len(LowerCase) : LowerCase[k] = c]]

\* the small letter of each capital
LowerOf ==
    [c \in {UpperCase[k] : k \in 1..Len(UpperCase)} |->
        LowerCase[CHOOSE k \in 1..Len(UpperCase) : UpperCase[k] = c]]

\* String.prototype.toUpperCase
toUpperCase(s) ==
    [i \in 1..Len(s) |-> IF s[i] \in DOMAIN UpperOf THEN UpperOf[s[i]] ELSE s[i]]

\* String.prototype.toLowerCase
toLowerCase(s) ==
    [i \in 1..Len(s) |-> IF s[i] \in DOMAIN LowerOf THEN LowerOf[s[i]] ELSE s[i]]

\* labelMap of the CSV import, and labelMap[evtLabel.toUpperCase()] || evtLabel
importLabel(evtLabel) ==
    LET upper == toUpperCase(evtLabel)
    IN CASE upper = Text("CHARGE")   -> "charge"
         [] upper = Text("DRY END")  -> "dryEnd"
         [] upper = Text("FC START") -> "fcStart"
         [] upper = Text("FC END")   -> "fcEnd"
         [] upper = Text("DROP")     -> "drop"
         [] upper = Text("TP")       -> "tp"
         [] OTHER                    -> Name(evtLabel)

\* Number.prototype.toString of a natural number
RECURSIVE DecimalChars(_)
DecimalChars(n) ==
    IF n < 10 THEN <<Digits[n + 1]>>
    ELSE DecimalChars(n \div 10) \o <<Digits[(n % 10) + 1]>>

\* n.toString().padStart(2, '0')
Pad2(n) == IF n < 10 THEN <<"0">> \o DecimalChars(n) ELSE DecimalChars(n)

\* formatTime(ms): mm:ss of the whole seconds in ms
formatTime(ms) ==
    LET totalSeconds == ms \div 1000
        mins == totalSeconds \div 60
        secs == totalSeconds % 60
    IN Pad2(mins) \o <<":">> \o Pad2(secs)

\* A faulty toFixed(2) that cuts the digits after the second decimal off.
toFixed2Truncating(x) ==
    LET hundredths == Abs(x) \div 100
    IN (IF x < 0 THEN <<"-">> ELSE <<>>)
       \o DecimalChars(hundredths \div 100) \o <<".">> \o Pad2(hundredths % 100)

\* x.toFixed(2) of a temperature in ten-thousandths of a degree: the nearest
\* hundredth, a tie away from zero
toFixed2(x) ==
    LET hundredths == (2 * Abs(x) + 100) \div 200
    IN (IF x < 0 THEN <<"-">> ELSE <<>>)
       \o DecimalChars(hundredths \div 100) \o <<".">> \o Pad2(hundredths % 100)

\* events.find: the first of the events at the positions hits, in a sequence of
\* none or one
find(evs, hits) ==
    IF hits = {} THEN <<>>
    ELSE <<evs[CHOOSE i \in hits : \A k \in hits : i <= k]>>

\* events.find(e => e.label === '入豆')
chargeEvent(evs) ==
    find(evs, {i \in 1..Len(evs) : evs[i].label = "charge"})

\* events.find(e => Math.abs(e.time - d.time) < 0.5): the first event less than
\* half a second from sample d, which in whole seconds is the first event at
\* the same second
matchingEvent(evs, d) ==
    find(evs, {i \in 1..Len(evs) : 2 * Abs(evs[i].time - d.time) < 1})

TAB == "\t"

\* the fields joined by tabs
RECURSIVE JoinTabs(_)
JoinTabs(fs) ==
    IF Len(fs) = 1 THEN fs[1]
    ELSE fs[1] \o <<TAB>> \o JoinTabs(Tail(fs))

\* getDuration() of a session that is not roasting
getDuration(samples) ==
    IF samples = <<>> THEN formatTime(0)
    ELSE formatTime(samples[Len(samples)].time * 1000)

\* the header line of the export: the date (here 06.11.2026), the unit, a tag
\* and a time for each event whose label is in the dictionary, and the duration
exportHeader(samples, evs) ==
    LET keyed == SelectSeq(evs, LAMBDA e : e.label \in canonicalLabels)
    IN JoinTabs(<<<<"D", "a", "t", "e", ":", "0", "6", ".", "1", "1", ".", "2", "0", "2", "6">>, <<"U", "n", "i", "t", ":", "C">>>>
                \o [i \in 1..Len(keyed) |->
                       Text(exportTag(keyed[i].label)) \o <<":">>
                       \o formatTime(keyed[i].time * 1000)]
                \o <<<<"T", "i", "m", "e", ":">> \o getDuration(samples)>>)

\* Time1, Time2, ET, BT, Event
exportColumns ==
    JoinTabs(<<<<"T", "i", "m", "e", "1">>, <<"T", "i", "m", "e", "2">>, <<"E", "T">>, <<"B", "T">>, <<"E", "v", "e", "n", "t">>>>)

\* the row handleConfirmExport writes for sample d
exportRow(d, evs) ==
    LET charge == chargeEvent(evs)
        matching == matchingEvent(evs, d)
    IN JoinTabs(<<formatTime(d.time * 1000),
                  IF charge # <<>> /\ d.time >= charge[1].time
                  THEN formatTime((d.time - charge[1].time) * 1000)
                  ELSE <<>>,
                  toFixed2(d.et),
                  toFixed2(d.bt),
                  IF matching = <<>> THEN <<>>
                  ELSE Text(exportTag(matching[1].label))>>)

\* A faulty export that writes every row without its event.
exportRowsWithoutEvents(samples, evs) ==
    [i \in 1..Len(samples) |-> exportRow(samples[i], <<>>)]

\* the rows of the export, one for each sample
exportRows(samples, evs) ==
    [i \in 1..Len(samples) |-> exportRow(samples[i], evs)]

\* the file handleConfirmExport builds, as content.split(/\r?\n/) sees it: the
\* text ends with a line break, so the last line is empty
csvContent(samples, evs) ==
    <<exportHeader(samples, evs), exportColumns>>
    \o exportRows(samples, evs) \o <<<<>>>>

\* String.prototype.includes
includes(s, sub) ==
    \E i \in 1..(Len(s) - Len(sub) + 1) :
        \A k \in 1..Len(sub) : s[i + k - 1] = sub[k]

\* String.prototype.startsWith
startsWith(s, sub) ==
    Len(s) >= Len(sub) /\ SubSeq(s, 1, Len(sub)) = sub

\* String.prototype.split on a one-character delimiter; cur is the part read
\* so far
RECURSIVE splitOn(_, _, _)
splitOn(s, delimiter, cur) ==
    IF s = <<>> THEN <<cur>>
    ELSE IF Head(s) = delimiter
         THEN <<cur>> \o splitOn(Tail(s), delimiter, <<>>)
         ELSE splitOn(Tail(s), delimiter, Append(cur, Head(s)))

\* (line.match(/c/g) || []).length
countOf(s, c) == Cardinality({i \in 1..Len(s) : s[i] = c})

\* the first position of a sequence that satisfies the test, 0 (the source's
\* -1) when there is none
firstOf(hits) ==
    IF hits = {} THEN 0 ELSE CHOOSE i \in hits : \A k \in hits : i <= k

\* a number that is not a number
NaN == -999999999

\* Number(str) of a part of mm:ss; the parts read here hold no sign, fraction
\* or exponent
Number(str) ==
    LET s == trim(str)
    IN IF s = <<>> THEN 0
       ELSE IF \A i \in 1..Len(s) : isDigit(s[i]) THEN Decimal(s)
       ELSE NaN

\* parseFloat of a cell, in ten-thousandths: the number its text starts with
\* (the cells read here hold no exponent), NaN when it starts with none or the
\* row has no such cell
parseCell(parts, idx) ==
    IF idx > Len(parts) THEN NaN
    ELSE LET s == trim(parts[idx])
             e == IF s = <<>> THEN 0 ELSE MatchAt(s, 1)
         IN IF e = 0 THEN NaN ELSE parseFloat(SubSeq(s, 1, e - 1))

\* the header row: the first of the first 20 lines that names a time and a bean
\* temperature, 0 when there is none
headerIdx(lines) ==
    firstOf({i \in 1..Len(lines) :
                LET lower == toLowerCase(lines[i])
                IN /\ i <= 20
                   /\ includes(lower, <<"t", "i", "m", "e">>)
                   /\ \/ includes(lower, <<"b", "t">>)
                      \/ includes(lower, <<"b", "e", "a", "n">>)
                      \/ includes(lower, <<"t", "e", "m", "p">>)})

\* the delimiter of the header row: tab, semicolon or comma
delimiterOf(headerLine) ==
    LET commaCount == countOf(headerLine, ",")
        semiCount == countOf(headerLine, ";")
        tabCount == countOf(headerLine, TAB)
    IN IF tabCount > commaCount /\ tabCount > semiCount THEN TAB
       ELSE IF semiCount > commaCount THEN ";"
       ELSE ","

\* the columns of the header row, trimmed and in lower case
headersOf(headerLine) ==
    LET cells == splitOn(headerLine, delimiterOf(headerLine), <<>>)
    IN [i \in 1..Len(cells) |-> toLowerCase(trim(cells[i]))]

timeIdx(headers) ==
    firstOf({i \in 1..Len(headers) : startsWith(headers[i], <<"t", "i", "m", "e">>)})

btIdx(headers) ==
    firstOf({i \in 1..Len(headers) :
                \/ headers[i] = <<"b", "t">>
                \/ includes(headers[i], <<"b", "e", "a", "n">>)
                \/ headers[i] = <<"t", "e", "m", "p", "2">>})

etIdx(headers) ==
    firstOf({i \in 1..Len(headers) :
                \/ headers[i] = <<"e", "t">>
                \/ includes(headers[i], <<"e", "n", "v">>)
                \/ headers[i] = <<"t", "e", "m", "p", "1">>})

eventIdx(headers) ==
    firstOf({i \in 1..Len(headers) : includes(headers[i], <<"e", "v", "e", "n", "t">>)})

\* the time cell read: mm:ss as m * 60 + (s || 0), anything else by parseFloat;
\* a time read by parseFloat is a whole number of seconds here
timeVal(tStr) ==
    IF includes(tStr, <<":">>)
    THEN LET ms == splitOn(tStr, ":", <<>>)
             m == Number(ms[1])
             s == Number(ms[2])
         IN IF m = NaN THEN NaN
            ELSE m * 60 + (IF s = NaN THEN 0 ELSE s)
    ELSE LET t == parseCell(<<tStr>>, 1)
         IN IF t = NaN THEN NaN ELSE t \div Unit

\* What the loop over the rows does with line i of the file: it throws, skips
\* the line, or pushes a sample and perhaps an event.
readRow(lines, i) ==
    LET hdr == headerIdx(lines)
        headers == headersOf(lines[hdr])
        line == trim(lines[i])
        parts == splitOn(line, delimiterOf(lines[hdr]), <<>>)
        tIdx == timeIdx(headers)
        time == IF tIdx = 0 THEN i - hdr ELSE timeVal(trim(parts[tIdx]))
        btVal == parseCell(parts, btIdx(headers))
        etVal == IF etIdx(headers) = 0 THEN 0 ELSE parseCell(parts, etIdx(headers))
        evIdx == eventIdx(headers)
        evtLabel == IF evIdx = 0 \/ evIdx > Len(parts) THEN <<>>
                    ELSE trim(parts[evIdx])
    IN IF line = <<>> THEN [thrown |-> FALSE, data |-> <<>>, events |-> <<>>]
       ELSE IF tIdx > Len(parts)
       THEN [thrown |-> TRUE, data |-> <<>>, events |-> <<>>]
       ELSE IF btVal = NaN
       THEN [thrown |-> FALSE, data |-> <<>>, events |-> <<>>]
       ELSE [thrown |-> FALSE,
             data |-> <<[time |-> IF time = NaN THEN 0 ELSE time,
                         bt |-> btVal,
                         et |-> IF etVal = NaN THEN 0 ELSE etVal,
                         ror |-> 0, et_ror |-> 0]>>,
             events |-> IF evtLabel = <<>> THEN <<>>
                        ELSE <<[time |-> time,
                                label |-> importLabel(evtLabel),
                                temp |-> btVal]>>]

\* the sequences of a sequence, one after the other
RECURSIVE Flatten(_)
Flatten(ss) ==
    IF ss = <<>> THEN <<>> ELSE Head(ss) \o Flatten(Tail(ss))

\* the rows of the file from line i on, read in order
readRows(lines, i) ==
    LET rows == [k \in 1..(Len(lines) + 1 - i) |-> readRow(lines, i + k - 1)]
    IN [thrown |-> \E k \in 1..Len(rows) : rows[k].thrown,
        data |-> Flatten([k \in 1..Len(rows) |-> rows[k].data]),
        events |-> Flatten([k \in 1..Len(rows) |-> rows[k].events])]

\* A faulty import that gives up at the first row with no bean temperature.
parseCsvStoppingAtBadRow(lines) ==
    LET hdr == headerIdx(lines)
        bad == firstOf({i \in (hdr + 1)..Len(lines) :
                           /\ hdr # 0
                           /\ trim(lines[i]) # <<>>
                           /\ readRow(lines, i).data = <<>>})
        read == IF hdr = 0 THEN [thrown |-> TRUE]
                ELSE readRows(IF bad = 0 THEN lines
                              ELSE SubSeq(lines, 1, bad - 1), hdr + 1)
    IN IF hdr = 0 THEN [ok |-> FALSE, data |-> <<>>, events |-> <<>>]
       ELSE IF btIdx(headersOf(lines[hdr])) = 0 \/ read.thrown \/ read.data = <<>>
       THEN [ok |-> FALSE, data |-> <<>>, events |-> <<>>]
       ELSE [ok |-> TRUE, data |-> read.data, events |-> read.events]

\* The CSV branch of handleImportFile up to the commit: the samples and events
\* parsed, or not ok when an error is thrown (no header row, no bean column, a
\* row too short to hold its time cell, no sample at all).
parseCsv(lines) ==
    LET hdr == headerIdx(lines)
        read == IF hdr = 0 THEN [thrown |-> TRUE] ELSE readRows(lines, hdr + 1)
    IN IF hdr = 0 THEN [ok |-> FALSE, data |-> <<>>, events |-> <<>>]
       ELSE IF btIdx(headersOf(lines[hdr])) = 0 \/ read.thrown \/ read.data = <<>>
       THEN [ok |-> FALSE, data |-> <<>>, events |-> <<>>]
       ELSE [ok |-> TRUE, data |-> read.data, events |-> read.events]

\* A faulty export button that opens the dialog that opens with nothing to export.
handleOpenExportModalUnguarded ==
    /\ ~isExportModalOpen
    /\ isExportModalOpen' = TRUE
    /\ UNCHANGED <<session, framing, parsing, csvFile, adapter>>

\* The export button is clicked; the dialog, once open, lies over every other
\* button.
handleOpenExportModal ==
    /\ ~isExportModalOpen
    /\ IF data = <<>>
       THEN errorMsg' = "noDataToExport" /\ UNCHANGED isExportModalOpen
       ELSE isExportModalOpen' = TRUE /\ UNCHANGED errorMsg
    /\ UNCHANGED <<status, data, events, elapsed, btRef, etRef, connStep, linkUp,
                   isSimulating, simRefLive, simOrphaned, showUndoDrop,
                   undoTimer, nextTick, sinceDisconnect, stopSnap, delivered>>
    /\ UNCHANGED <<framing, parsing, csvFile, adapter>>

\* The dialog is closed with its X or its cancel button.
closeExportModal ==
    /\ isExportModalOpen
    /\ isExportModalOpen' = FALSE
    /\ UNCHANGED <<session, framing, parsing, csvFile, adapter>>

\* The form of the dialog is submitted: the file is built and downloaded.
handleConfirmExport ==
    /\ isExportModalOpen
    /\ isExportModalOpen' = FALSE
    /\ \E content \in {csvContent(data, events)} : csvFile' = content
    /\ UNCHANGED <<session, framing, parsing, adapter>>

\* The CSV file at hand is chosen for import: the CSV branch of
\* handleImportFile and its commit.
handleImportCsv ==
    /\ ~isExportModalOpen
    /\ csvFile # <<>>
    /\ \E parsed \in {parseCsv(csvFile)} :
       \E processedData \in {recalculateRoR(parsed.data)} :
          IF parsed.ok
          THEN /\ data' = processedData
               /\ events' = parsed.events
               /\ status' = FINISHED
               /\ elapsed' = NoTime
               /\ btRef' = processedData[Len(processedData)].bt
               /\ etRef' = processedData[Len(processedData)].et
               /\ UNCHANGED errorMsg
          ELSE /\ errorMsg' = "importFailed"
               /\ UNCHANGED <<status, data, events, elapsed, btRef, etRef>>
    /\ stopSnap' = NoSnap
    /\ UNCHANGED <<framing, parsing, csvFile, isExportModalOpen, adapter>>
    /\ UNCHANGED delivered
    /\ UNCHANGED <<connStep, linkUp, isSimulating, simRefLive, simOrphaned,
                   showUndoDrop, undoTimer, sinceDisconnect>>
    /\ SamplingEffect

\* the samples of the roast exported, one each second: 150.2549, 151.125 and
\* 152 degrees of bean temperature
RecordedSamples ==
    <<[time |-> 1, bt |-> 1502549, et |-> 2000000, ror |-> 0, et_ror |-> 0],
      [time |-> 2, bt |-> 1511250, et |-> 1999951, ror |-> 0, et_ror |-> 0],
      [time |-> 3, bt |-> 1520000, et |-> 1999900, ror |-> 0, et_ror |-> 0]>>

\* the samples of a roast recorded with gaps, from below zero: -0.125, 0.3349
\* and 99.995 degrees of bean temperature, the last after more than two minutes
SparseSamples ==
    <<[time |-> 59, bt |-> -1250, et |-> 2000000, ror |-> 0, et_ror |-> 0],
      [time |-> 60, bt |-> 3349, et |-> -49, ror |-> 0, et_ror |-> 0],
      [time |-> 125, bt |-> 999951, et |-> 1000050, ror |-> 0, et_ror |-> 0]>>

\* the seconds at which an event of that roast can lie
EventTimes == 0..Len(RecordedSamples)

\* the milestone events of that roast: distinct labels, in the order of their
\* times
MilestoneLists ==
    { evs \in UNION { [1..n -> [time : EventTimes, label : canonicalLabels,
                                temp : {SimStartBT * Unit}]] : n \in 0..MaxEvents } :
        \A i, j \in 1..Len(evs) :
            i < j => evs[i].label # evs[j].label /\ evs[i].time <= evs[j].time }

\* A finished roast of three samples, with any milestone events, or the sparse
\* roast with none.
CsvInit ==
    /\ status = FINISHED
    /\ \/ /\ data = RecordedSamples
          /\ \E evs \in MilestoneLists :
                events = <<[time |-> 0, label |-> "start",
                            temp |-> SimStartBT * Unit]>> \o evs
       \/ /\ data = SparseSamples
          /\ events = <<[time |-> 0, label |-> "start",
                         temp |-> SimStartBT * Unit]>>
    /\ elapsed = data[Len(data)].time
    /\ btRef = data[Len(data)].bt
    /\ etRef = data[Len(data)].et
    /\ connStep = "none"
    /\ linkUp = TRUE
    /\ isSimulating = FALSE
    /\ simRefLive = FALSE
    /\ simOrphaned = FALSE
    /\ showUndoDrop = FALSE
    /\ undoTimer = NoTime
    /\ nextTick = NoTime
    /\ errorMsg = "none"
    /\ sinceDisconnect = FALSE
    /\ stopSnap = NoSnap
    /\ delivered = <<btRef, etRef>>
    /\ buffer = <<>>
    /\ wire = [stream |-> <<>>, pos |-> 0, chunks |-> 0]
    /\ parsedLines = <<>>
    /\ ParsingIdle
    /\ NoExport
    /\ ModalClosed
    /\ AdapterFresh

CsvNext ==
    \/ handleOpenExportModal
    \/ closeExportModal
    \/ handleConfirmExport
    \/ handleImportCsv

CsvSpec == CsvInit /\ [][CsvNext]_vars

\* the file is the export of the session as it is now
exportedNow == csvFile = csvContent(data, events)

\* the labels of the dictionary that the session holds an event of
labelsHeld ==
    {events[i].label : i \in 1..Len(events)} \cap canonicalLabels

\* C29: the milestone tag dictionary is bidirectional: for every label of the
\* dictionary (here: each one an exported session holds), the tag the export
\* writes for it is read back by the CSV import as that label.
C29_TagDictionaryRoundTrips ==
    exportedNow =>
        \A label \in labelsHeld : importLabel(Text(exportTag(label))) = label

\* the same for the three labels whose tags the import knows
C29_KnownTagsRoundTrip ==
    exportedNow =>
        \A label \in labelsHeld \cap {"charge", "drop", "tp"} :
            importLabel(Text(exportTag(label))) = label

\* the events of evs with the given label whose time is within half a second of
\* the given time: in whole seconds, at that time
eventsLike(evs, e) ==
    {i \in 1..Len(evs) :
        evs[i].label = e.label /\ 2 * Abs(evs[i].time - e.time) <= 1}

\* the milestone events of the session
milestoneEvents ==
    {events[i] : i \in {k \in 1..Len(events) : events[k].label \in canonicalLabels}}

\* C30: every milestone event of an exported session reappears in the import of
\* the file exactly once, with its label and a time within half a second of
\* its own; none is lost for want of a sample row within half a second of it,
\* or because another event matches that row.
C30_EventsSurviveRoundTrip ==
    exportedNow =>
        \A e \in milestoneEvents :
            Cardinality(eventsLike(parseCsv(csvFile).events, e)) = 1

\* the same for a charge, drop or turning point that lies at the second of a
\* sample and is the first event there
C30_FirstKnownEventAtSampleSurvives ==
    exportedNow =>
        \A e \in milestoneEvents :
            /\ e.label \in {"charge", "drop", "tp"}
            /\ \E i \in 1..Len(data) : data[i].time = e.time
            /\ matchingEvent(events, e) = <<e>>
            => Cardinality(eventsLike(parseCsv(csvFile).events, e)) = 1

\* x rounded to the nearest hundredth of a degree, in ten-thousandths
Round2(x) ==
    IF x < 0 THEN -(((-x + 50) \div 100) * 100) ELSE ((x + 50) \div 100) * 100

\* the milliseconds past the whole second at which a sample can be taken
SubSecond == {0, 1, 499, 500, 999}

\* C31: the import of an exported file yields the samples of the session, as
\* many and in the same order, each with bt and et rounded to two decimals and
\* its time cut to whole seconds; the metadata line of the export (line 1) is
\* never taken for the column header row (line 2).
C31_SamplesSurviveRoundTrip ==
    exportedNow =>
        \A parsed \in {parseCsv(csvFile)} :
           /\ headerIdx(csvFile) = 2
           /\ parsed.ok
           /\ Len(parsed.data) = Len(data)
           /\ \A i \in 1..Len(data) :
                 /\ parsed.data[i].bt = Round2(data[i].bt)
                 /\ parsed.data[i].et = Round2(data[i].et)
                 /\ parsed.data[i].time = data[i].time
                 /\ \A ms \in SubSecond :
                       timeVal(formatTime(data[i].time * 1000 + ms)) = data[i].time

\* a session is exported whose samples lie past the first minute and whose
\* temperatures, one of them negative, are changed by the rounding
C31_Witness ==
    /\ exportedNow
    /\ \E i, j \in 1..Len(data) :
          /\ data[i].time >= 60
          /\ data[i].bt # Round2(data[i].bt)
          /\ data[j].bt < 0
          /\ parseCsv(csvFile).data[j].bt = Round2(data[j].bt)
          /\ Round2(data[j].bt) # data[j].bt

(***************************************************************************)
(* Files written by other tools.  ImportSpec starts with an idle session   *)
(* and any such file at hand, and imports it.                              *)
(***************************************************************************)

\* a file of another tool holds at most this many rows under its header row
MaxRows == 2

\* the header rows of those files: one with an event column and the time
\* first, one with the time last and no event column
ForeignHeaders == {<<"T", "i", "m", "e", ",", "B", "T", ",", "E", "v", "e", "n", "t">>, <<"B", "T", ",", "E", "T", ",", "T", "i", "m", "e">>}

\* the cells of those files: mm:ss, plain seconds, and text that is no number
TimeCells == {<<"0", "1", ":", "0", "5">>, <<"7">>, <<"x">>}

BeanCells == {<<"1", "5", "0", ".", "5">>, <<"x">>}

EnvCells == {<<"2", "0", "0">>, <<"x">>}

EventCells == {<<>>, <<"C", "H", "A", "R", "G", "E">>, <<"C", "h", "a", "r", "g", "e">>, <<"F", "C", "s">>}

\* the fields joined by commas
RECURSIVE JoinCommas(_)
JoinCommas(fs) ==
    IF Len(fs) = 1 THEN fs[1]
    ELSE fs[1] \o <<",">> \o JoinCommas(Tail(fs))

\* the rows a file with the given header row can hold: full rows, rows cut
\* short after a cell, and the blank line
ForeignRows(header) ==
    IF header = <<"T", "i", "m", "e", ",", "B", "T", ",", "E", "v", "e", "n", "t">>
    THEN {JoinCommas(<<t, b, e>>) : t \in TimeCells, b \in BeanCells, e \in EventCells}
         \cup {JoinCommas(<<t>>) : t \in TimeCells}
         \cup {<<>>}
    ELSE {JoinCommas(<<b, e, t>>) : b \in BeanCells, e \in EnvCells, t \in TimeCells}
         \cup {JoinCommas(<<b, e>>) : b \in BeanCells, e \in EnvCells}
         \cup {JoinCommas(<<b>>) : b \in BeanCells}
         \cup {<<>>}

ForeignFiles(h) ==
    { <<h>> \o rows : rows \in UNION { [1..n -> ForeignRows(h)] : n \in 1..MaxRows } }

ImportInit ==
    /\ SessionInit
    /\ buffer = <<>>
    /\ wire = [stream |-> <<>>, pos |-> 0, chunks |-> 0]
    /\ parsedLines = <<>>
    /\ ParsingIdle
    /\ \E h \in ForeignHeaders : csvFile \in ForeignFiles(h)
    /\ ModalClosed
    /\ AdapterFresh

ImportNext == handleImportCsv

ImportSpec == ImportInit /\ [][ImportNext]_vars

\* the import has run, to its commit or to its error notice
importedNow == status = FINISHED \/ errorMsg = "importFailed"

\* the cells of line i of the file at hand, whose header row is line 1
cellsOf(i) == splitOn(trim(csvFile[i]), delimiterOf(csvFile[1]), <<>>)

\* the cell of line i in the column at idx; empty when there is no such column
\* or the row is too short to hold it
cellAt(i, idx) ==
    IF idx = 0 \/ idx > Len(cellsOf(i)) THEN <<>> ELSE trim(cellsOf(i)[idx])

\* the bean temperature of line i, NaN when it cannot be parsed
rowBean(i) == parseCell(<<cellAt(i, btIdx(headersOf(csvFile[1])))>>, 1)

\* the ET of line i, 0 when it cannot be parsed
rowEnv(i) ==
    LET et == parseCell(<<cellAt(i, etIdx(headersOf(csvFile[1])))>>, 1)
    IN IF et = NaN THEN 0 ELSE et

\* the time cell of line i can be parsed
timed(i) == timeVal(cellAt(i, timeIdx(headersOf(csvFile[1])))) # NaN

\* the time of line i, 0 when it cannot be parsed
rowTime(i) ==
    IF timed(i) THEN timeVal(cellAt(i, timeIdx(headersOf(csvFile[1])))) ELSE 0

\* the event cell of line i
rowEvent(i) == cellAt(i, eventIdx(headersOf(csvFile[1])))

\* the lines under the header row whose bean temperature can be parsed
goodRows ==
    SelectSeq([k \in 1..(Len(csvFile) - 1) |-> k + 1], LAMBDA i : rowBean(i) # NaN)

\* those of them that hold an event cell
eventRows == SelectSeq(goodRows, LAMBDA i : rowEvent(i) # <<>>)

\* every row that is not blank is long enough to hold its time cell
rowsHoldTimeCell ==
    \A i \in 2..Len(csvFile) :
        trim(csvFile[i]) # <<>> =>
            Len(cellsOf(i)) >= timeIdx(headersOf(csvFile[1]))

\* the samples are the rows with a bean temperature, in order, each with 0 for
\* an ET or a time that cannot be parsed
rowsImported ==
    /\ status = FINISHED
    /\ Len(data) = Len(goodRows)
    /\ \A k \in 1..Len(goodRows) :
          /\ data[k].bt = rowBean(goodRows[k])
          /\ data[k].et = rowEnv(goodRows[k])
          /\ data[k].time = rowTime(goodRows[k])

\* C32: a bad row never aborts the import: of a file with a row that can be
\* imported, the rows whose bean temperature cannot be parsed are skipped, a
\* row whose ET or time cannot be parsed or is missing gets 0 there, and all
\* other rows are imported.
C32_BadRowNeverAborts ==
    importedNow /\ goodRows # <<>> => rowsImported

\* the same for the files whose rows are all long enough to hold their time
\* cell
C32_RowsHoldingTimeCellSurvive ==
    importedNow /\ goodRows # <<>> /\ rowsHoldTimeCell => rowsImported

\* the events are those of the rows with a bean temperature and an event cell,
\* one each and in order: the time and bean temperature of the row, and the
\* cell mapped through the import dictionary
eventsImported ==
    /\ status = FINISHED
    /\ Len(events) = Len(eventRows)
    /\ \A k \in 1..Len(eventRows) :
          events[k] = [time |-> rowTime(eventRows[k]),
                       label |-> importLabel(rowEvent(eventRows[k])),
                       temp |-> rowBean(eventRows[k])]

\* C33: each row with a parseable bean temperature and a non-empty event cell
\* yields exactly one event, with the row's time and bean temperature and the
\* cell mapped through the import dictionary (CHARGE, in any case, is the
\* charge label); rows without an event cell yield none.
C33_EventRowsYieldEvents ==
    importedNow /\ goodRows # <<>> => eventsImported

\* the same for the files whose rows all hold their time cell and whose event
\* rows all have a time that can be parsed
C33_TimedEventRowsYieldEvents ==
    /\ importedNow
    /\ goodRows # <<>>
    /\ rowsHoldTimeCell
    /\ \A k \in 1..Len(eventRows) : timed(eventRows[k])
    => eventsImported

(***************************************************************************)
(* Export during a session.  ExportSpec is the session fed by the          *)
(* simulator, with the export dialog: while the dialog is open it covers   *)
(* the buttons of the page, all but those of the undo toast, which is      *)
(* drawn over it; the timers run on.                                       *)
(***************************************************************************)

\* a button under the dialog is clicked
ClickUnderModal ==
    /\ ~isExportModalOpen
    /\ \/ toggleSimulation
       \/ handleStartRoast
       \/ handleStopRoast
       \/ handleReset

ExportNext ==
    \/ handleOpenExportModal
    \/ closeExportModal
    \/ handleConfirmExport
    \/ ClickUnderModal
    \/ handleUndoDrop
    \/ DismissUndoToast
    \/ UndoTimerFires
    \/ SamplingTick
    \/ SimulationTick

ExportSpec == Init /\ [][ExportNext]_vars

C38_RoastingHasStartTime ==
    status = ROASTING => elapsed # NoTime

\* C39: in every reachable state a preheating or roasting session has a data
\* source: a connected transport or the running simulator.
C39_LiveStatusHasSource ==
    status \in {PREHEATING, ROASTING} => linkUp \/ isSimulating

(***************************************************************************)
(* The transport services.  TransportSpec is one service, the Bluetooth,   *)
(* the serial or the WebSocket service, with the callbacks                 *)
(* handleBluetoothConnect gives it: connect() and disconnect() are called, *)
(* the transport is lost, the polling interval fires, chunks and messages  *)
(* arrive.  The handshake of connect() is one step.  The device sends the  *)
(* character "7" in its first connection and "8" in its second.            *)
(***************************************************************************)

\* connect() is called at most this many times
MaxConnections == 2

\* at most this many READ commands are counted
MaxReads == 2

\* a chunk holds at most this many characters
MaxChunk == 2

\* the buffer holds at most this many characters of an unfinished line
MaxBuffer == 3

AdapterKinds == {"bluetooth", "serial", "websocket"}

\* the session variables a service's callbacks leave alone
recorded == <<data, events, elapsed, connStep, simRefLive, simOrphaned,
              showUndoDrop, undoTimer>>

\* the session variables the onDisconnect callback assigns
lifecycle == <<status, isSimulating, errorMsg, linkUp, sinceDisconnect,
               stopSnap, nextTick>>

\* the live reading
reading == <<btRef, etRef, delivered>>

\* the rest of the model, which the services leave alone
elsewhere == <<wire, parsing, csvFile, isExportModalOpen>>

\* the onDisconnect callback of handleBluetoothConnect
onDisconnectCallback ==
    /\ status' = IDLE
    /\ isSimulating' = FALSE
    /\ errorMsg' = "disconnected"
    /\ linkUp' = FALSE
    /\ sinceDisconnect' = TRUE
    /\ stopSnap' = NoSnap
    /\ UNCHANGED recorded
    /\ SamplingEffect

\* startPolling(): the interval pollingInterval holds is cleared, sendCommand
\* is run once and a new interval is set
startPolling(a) ==
    [a EXCEPT !.polling = 1,
              !.reads = IF a.reads < MaxReads THEN a.reads + 1 ELSE a.reads]

\* connect() is called and resolves, and handleBluetoothConnect sets the status.
\* The Bluetooth service adds its gattserverdisconnected listener, the
\* WebSocket service sets onclose and starts its heartbeat; the Bluetooth and
\* the serial service start polling.  No service touches its buffer.
AdapterConnect ==
    /\ ~adapter.up
    /\ ~adapter.closing
    /\ adapter.connections < MaxConnections
    /\ LET opened == [adapter EXCEPT !.up = TRUE, !.reads = 0,
                                     !.connections = @ + 1,
                                     !.listening = adapter.kind # "serial"]
       IN adapter' = IF adapter.kind = "websocket" THEN opened
                     ELSE startPolling(opened)
    /\ status' = PREHEATING
    /\ linkUp' = TRUE
    /\ stopSnap' = NoSnap
    /\ UNCHANGED <<isSimulating, errorMsg, sinceDisconnect>>
    /\ UNCHANGED <<recorded, reading, buffer, parsedLines, elsewhere>>
    /\ SamplingEffect

\* The transport is lost: the BLE link drops, the serial port stops being
\* readable, the WebSocket is closed by the other side.
TransportLost ==
    /\ adapter.up
    /\ adapter' = [adapter EXCEPT !.up = FALSE, !.closing = TRUE, !.lost = TRUE]
    /\ UNCHANGED <<recorded, lifecycle, reading, buffer, parsedLines, elsewhere>>

\* The end of the transport reaches the service.  Bluetooth: onDisconnected, if
\* the listener is still there, clears the polling interval and calls the
\* callback.  WebSocket: onclose cleans up and calls the callback.  Serial:
\* read() rejects or is done, and readLoop ends; nothing else happens.
TransportEnded ==
    /\ adapter.closing
    /\ IF adapter.kind = "serial" \/ ~adapter.listening
       THEN /\ adapter' = [adapter EXCEPT !.closing = FALSE]
            /\ UNCHANGED <<recorded, lifecycle>>
       ELSE /\ adapter' = [adapter EXCEPT !.closing = FALSE, !.polling = 0,
                                          !.lost = FALSE]
            /\ onDisconnectCallback
    /\ UNCHANGED <<reading, buffer, parsedLines, elsewhere>>

\* disconnect() is called.  Bluetooth: the interval is cleared, the listeners
\* are removed and the link is closed; the buffer stays.  Serial: the interval
\* is cleared, the reader cancelled, the port closed, cleanup() empties the
\* buffer and the callback is called.  WebSocket: cleanup, and close(), whose
\* close event reaches onclose later.
AdapterDisconnect ==
    /\ adapter.connections > 0
    /\ CASE adapter.kind = "bluetooth" ->
              /\ adapter' = [adapter EXCEPT !.polling = 0, !.listening = FALSE,
                                            !.up = FALSE, !.lost = FALSE]
              /\ UNCHANGED <<recorded, lifecycle, buffer>>
         [] adapter.kind = "serial" ->
              /\ adapter' = [adapter EXCEPT !.polling = 0, !.up = FALSE,
                                            !.closing = FALSE, !.lost = FALSE]
              /\ buffer' = <<>>
              /\ onDisconnectCallback
         [] adapter.kind = "websocket" ->
              /\ adapter' = [adapter EXCEPT !.up = FALSE, !.lost = FALSE,
                                            !.closing = @ \/ adapter.up]
              /\ UNCHANGED <<recorded, lifecycle, buffer>>
    /\ UNCHANGED <<reading, parsedLines, elsewhere>>

\* The polling interval fires: sendCommand.  Bluetooth: READ is written if the
\* server is connected, else the interval is cleared.  Serial: READ is written
\* if the port is writable, else nothing is done.
PollTick ==
    /\ adapter.polling > 0
    /\ adapter' =
          IF adapter.up
          THEN [adapter EXCEPT !.reads = IF @ < MaxReads THEN @ + 1 ELSE @]
          ELSE IF adapter.kind = "bluetooth"
               THEN [adapter EXCEPT !.polling = 0]
               ELSE adapter
    /\ UNCHANGED <<recorded, lifecycle, reading, buffer, parsedLines, elsewhere>>

\* the character the device sends in its n-th connection
ConnChar(n) == IF n = 1 THEN "7" ELSE "8"

\* the chunks that can arrive in the n-th connection
Chunks(n) == UNION { [1..k -> {ConnChar(n), LF}] : k \in 1..MaxChunk }

\* the readings parseGreedy gives to onDataCallback for the lines, in order
RECURSIVE readingsOf(_)
readingsOf(lines) ==
    IF lines = <<>> THEN <<>>
    ELSE parseGreedy(Head(lines)) \o readingsOf(Tail(lines))

\* A chunk arrives at the Bluetooth or the serial service: handleNotifications
\* or handleData frames it, parseGreedy parses the lines, and the onData
\* callback stores each reading.
OnChunk ==
    /\ adapter.up
    /\ adapter.kind # "websocket"
    /\ \E chunk \in Chunks(adapter.connections) :
          LET framed == handleNotifications(buffer, chunk)
              calls == readingsOf(framed.lines)
          IN /\ Len(framed.buffer) <= MaxBuffer
             /\ buffer' = framed.buffer
             /\ parsedLines' = framed.lines
             /\ IF calls = <<>> THEN UNCHANGED reading
                ELSE /\ btRef' = calls[Len(calls)].bt
                     /\ etRef' = calls[Len(calls)].et
                     /\ delivered' = <<calls[Len(calls)].bt, calls[Len(calls)].et>>
    /\ UNCHANGED <<adapter, recorded, lifecycle, elsewhere>>

\* a JSON number, and a JSON value that is none
Num(n) == [type |-> "number", n |-> n]

Str == [type |-> "string", n |-> 0]

\* The messages a WebSocket source sends, as JSON.parse sees them: text that
\* is no JSON (parse throws), null (parsed, but reading a field of it throws),
\* a number, and objects with the fields given.
WsPayloads ==
    { [parse |-> "throws", fields |-> <<>>],
      [parse |-> "null", fields |-> <<>>],
      [parse |-> "value", fields |-> <<>>],
      [parse |-> "value", fields |-> [status |-> Str]],
      [parse |-> "value", fields |-> [temp1 |-> Str, temp2 |-> Str]],
      [parse |-> "value", fields |-> [temp1 |-> Num(202), temp2 |-> Num(151)]],
      [parse |-> "value", fields |-> [Environment |-> Num(202), Bean |-> Num(151)]],
      [parse |-> "value", fields |-> [et |-> Num(202), bt |-> Num(151)]],
      [parse |-> "value", fields |-> [temp2 |-> Num(151)]],
      [parse |-> "value", fields |-> [temp2 |-> Num(151), bt |-> Num(150),
                                      temp1 |-> Str, et |-> Num(202)]] }

\* typeof data[name] === 'number'
isNumber(fields, name) ==
    name \in DOMAIN fields /\ fields[name].type = "number"

\* the first of the names that holds a number, 0 when none does
firstNumber(fields, names) ==
    IF \E i \in 1..Len(names) : isNumber(fields, names[i])
    THEN fields[names[CHOOSE i \in 1..Len(names) :
                         /\ isNumber(fields, names[i])
                         /\ \A k \in 1..(i - 1) : ~isNumber(fields, names[k])]].n
    ELSE 0

\* parseMessage: the calls it makes to onDataCallback, none or one
parseMessage(msg) ==
    IF msg.parse # "value" THEN <<>>
    ELSE <<[bt |-> firstNumber(msg.fields, <<"temp2", "Bean", "bt">>),
            et |-> firstNumber(msg.fields, <<"temp1", "Environment", "et">>)]>>

\* onmessage: a text message arrives at the WebSocket service.
OnMessage ==
    /\ adapter.up
    /\ adapter.kind = "websocket"
    /\ \E msg \in WsPayloads :
          LET calls == parseMessage(msg)
          IN /\ adapter' = [adapter EXCEPT !.message = msg]
             /\ IF calls = <<>> THEN UNCHANGED reading
                ELSE /\ btRef' = calls[1].bt
                     /\ etRef' = calls[1].et
                     /\ delivered' = <<calls[1].bt, calls[1].et>>
    /\ UNCHANGED <<recorded, lifecycle, buffer, parsedLines, elsewhere>>

\* A fresh service of any kind, in the session after construction.
TransportInit ==
    /\ SessionInit
    /\ ParsingIdle
    /\ NoExport
    /\ ModalClosed
    /\ buffer = <<>>
    /\ parsedLines = <<>>
    /\ wire = [stream |-> <<>>, pos |-> 0, chunks |-> 0]
    /\ \E kind \in AdapterKinds : adapter = FreshAdapter(kind)

TransportNext ==
    \/ AdapterConnect
    \/ TransportLost
    \/ TransportEnded
    \/ AdapterDisconnect
    \/ PollTick
    \/ OnChunk
    \/ OnMessage

TransportSpec == TransportInit /\ [][TransportNext]_vars

\* The event loop runs what is queued: the end of a transport reaches its
\* handler, and an interval that is set fires.
FairTransportSpec ==
    /\ TransportSpec
    /\ WF_vars(TransportEnded)
    /\ WF_vars(PollTick)

\* C35: every service reports an unexpected loss of its transport: when the
\* transport is lost with no disconnect() called, the service eventually calls
\* the onDisconnect callback.
C35_LossIsReported ==
    adapter.lost ~> ~adapter.lost

\* the same for the Bluetooth and the WebSocket service
C35_LinkAndSocketLossIsReported ==
    (adapter.lost /\ adapter.kind # "serial") ~> ~adapter.lost

\* the transport has ended and the service has handled its end
ended == ~adapter.up /\ ~adapter.closing

\* C36: the periodic tasks are cancelled for good: at most one polling interval
\* runs, none runs once the transport has ended, no READ is written from the
\* end of a transport to the next connect, and disconnect() with the interval
\* stopped leaves it stopped.
C36_PollingStopsWithTransport ==
    [][/\ adapter.polling <= 1
       /\ ended => adapter.polling = 0
       /\ ~adapter.up /\ ~AdapterConnect => adapter'.reads = adapter.reads
       /\ AdapterDisconnect => adapter'.polling = 0]_vars

\* the same for the Bluetooth service
C36_BluetoothPollingStopsWithLink ==
    [][adapter.kind = "bluetooth" =>
          /\ adapter.polling <= 1
          /\ ended => adapter.polling = 0
          /\ ~adapter.up /\ ~AdapterConnect => adapter'.reads = adapter.reads
          /\ AdapterDisconnect => adapter'.polling = 0]_vars

\* the message holds a number for neither temperature: it is no JSON, or JSON
\* without a numeric temp2, Bean, bt, temp1, Environment or et
malformed(msg) ==
    \/ msg.parse # "value"
    \/ \A name \in {"temp2", "Bean", "bt", "temp1", "Environment", "et"} :
          ~isNumber(msg.fields, name)

\* C37: a WebSocket message that is malformed or no JSON is ignored: onData is
\* not called and the live reading stays as it is.
C37_MalformedMessageIgnored ==
    [][OnMessage /\ malformed(adapter'.message) => UNCHANGED reading]_vars

\* the same for a message that JSON.parse rejects, and for null
C37_UnparsedMessageIgnored ==
    [][OnMessage /\ adapter'.message.parse # "value" => UNCHANGED reading]_vars

\* the line holds characters of two connections
acrossConnections(line) ==
    /\ \E i \in 1..Len(line) : line[i] = ConnChar(1)
    /\ \E i \in 1..Len(line) : line[i] = ConnChar(2)

\* C40: at the start of every connection the framing buffer is empty, and no
\* line handed to the parser holds characters of two connections.
C40_BufferEmptyAtConnect ==
    [][/\ AdapterConnect => buffer' = <<>>
       /\ \A i \in 1..Len(parsedLines') : ~acrossConnections(parsedLines'[i])]_vars

\* the same for a serial connection that follows a disconnect()
C40_SerialBufferEmptyAfterDisconnect ==
    [][AdapterConnect /\ adapter.kind = "serial" /\ ~adapter.lost
          => buffer' = <<>>]_vars

=============================================================================
